---- MODULE Spec2Model ----
(***************************************************************************)
(* img3dlite: silhouette -> polygon -> prism -> CSG intersection.          *)
(*                                                                         *)
(* Numbers.  Scene coordinates are held as integers counting HALF scene    *)
(* units (contourMatToPoints yields x - width/2, a multiple of 1/2).       *)
(* polygonSignedArea is held in eighths of a square unit (the shoelace sum *)
(* of half-unit coordinates), so `area < 1e-4` reads 10000 * area8 < 8.    *)
(* A non-finite coordinate (NaN) is a point with fin = FALSE; it is equal  *)
(* to no point, itself included.                                           *)
(* Mesh positions are rationals num/den with one denominator per geometry. *)
(***************************************************************************)
EXTENDS Integers, Sequences, FiniteSets, TLC

VARIABLES
  sanIn,      \* SpecSanitize: the input of the call [raw, w, h]
  sanOp,      \* SpecSanitize: which entry point was applied ("none" before)
  sanOut,     \* SpecSanitize: what it returned
  exIn,       \* SpecExtract: image size, options and what findContours/approxPolyDP yield
  exPc,       \* SpecExtract: position in extractShapesFromBinaryMat
  exI,        \* SpecExtract: index i of the outer loop (1-based)
  exChild,    \* SpecExtract: index child of the hole loop (0: -1)
  exShape,    \* SpecExtract: the Shape under construction
  exCandidates, \* SpecExtract: candidates[], each {shape, area}
  exResult,   \* SpecExtract: the returned Shape[]
  exLive,     \* SpecExtract: the native buffers allocated and not deleted
  exBad,      \* SpecExtract: some buffer was deleted when not live
  exErr,      \* SpecExtract: the message of the error thrown (NoError: none)
  exOut,      \* SpecExtract: the Shape the entry point returns
  shapes,     \* Spec: App state `shapes` (front, top, side; Null when absent)
  depth,      \* Spec: extrusionDepth, in scene units
  pc,         \* Spec: position in buildIntersectionGeometryWithDebug
  safe,       \* Spec: safeFront / safeTop / safeSide
  geos,       \* Spec: frontGeo / topGeo / sideGeo
  result,     \* Spec: `result` of the CSG steps
  out,        \* Spec: the returned {geometry, error}
  calls,      \* Spec: the operations the build has performed, in order
  thrown,     \* Spec: the message buildIntersectionGeometry threw (NoError: none)
  resultGeometry, \* Spec: what App's useMemo holds after the build
  files,      \* SpecApp: App state `files` / `imageUrls` (the image chosen per view)
  geminiBlobs, \* SpecApp: App state `geminiBlobs` (the Gemini image kept per view)
  processing, \* SpecApp: App state `processing`
  error,      \* SpecApp: App state `error`, the message the Status panel shows
  phase,      \* SpecApp: App state `phase`
  geminiImages, \* SpecApp: App state `geminiImages` (object URL kept per view)
  transparentImages, \* SpecApp: App state `transparentImages`
  aPc,        \* SpecApp: position of the run in flight ("idle": none)
  aView,      \* SpecApp: index into orderedViews of the loop in flight
  aRun,       \* SpecApp: locals of the run: imageUrls seen, nextBlobs, nextShapes
  aChanges,   \* SpecApp: number of onChangeFile calls so far
  aLast,      \* SpecApp: how the last run ended, until a file changes
  aPrior,     \* SpecApp: the finished result on screen when the run started
  binIn,      \* SpecBinarize: the canvas pixels and the options of the call
  binPc,      \* SpecBinarize: position in toBinarizedMat
  binSrc,     \* SpecBinarize: the path taken and the mask it first produced
  binary,     \* SpecBinarize: the Mat `binary`, one 0/255 value per pixel
  cvGlobal,   \* SpecOpenCV: globalThis.cv ("absent", "loaded", "ready")
  script,     \* SpecOpenCV: the script elements inserted and their load state
  hook,       \* SpecOpenCV: the attempts whose markReady cv.onRuntimeInitialized calls
  openCvLoadPromise, \* SpecOpenCV: the module variable (0: null, else the attempt)
  attempts,   \* SpecOpenCV: the promises ensureOpenCVLoaded has created
  mounts      \* SpecOpenCV: the useOpenCV mounts

sanVars == <<sanIn, sanOp, sanOut>>
exVars == <<exIn, exPc, exI, exChild, exShape, exCandidates, exResult,
           exLive, exBad, exErr, exOut>>
buildVars == <<shapes, depth, pc, safe, geos, result, out, calls, thrown, resultGeometry>>
appVars == <<files, geminiBlobs, processing, error, phase, geminiImages,
             transparentImages, aPc, aView, aRun, aChanges,
             aLast, aPrior>>
binVars == <<binIn, binPc, binSrc, binary>>
cvVars == <<cvGlobal, script, hook, openCvLoadPromise, attempts, mounts>>
vars == <<sanVars, exVars, buildVars, appVars, binVars, cvVars>>

----------------------------------------------------------------------------
(* Bounds of the model *)

\* longest point sequence given to the sanitizer entry points
MaxLen == 4

\* side of the square silhouette of the cube scenario, in scene units
UnitSide == 100
\* long edge of the tall silhouette (2.5 times it exceeds the 300 floor)
TallSide == 325

\* most contours findContours returns for one mask
MaxContours == 3

\* pixel grid the sanitizer inputs are drawn from
GridX == 0..2
GridY == 0..1

----------------------------------------------------------------------------
(* Values *)

Null == [kind |-> "null"]

\* error: null
NoError == "null"

\* err.message of what a library call threw
ErrMessage == "library error"

Pt(x, y) == [x |-> x, y |-> y, fin |-> TRUE]
NaNPt == [x |-> 0, y |-> 0, fin |-> FALSE]

Abs(n) == IF n < 0 THEN -n ELSE n
Max2(a, b) == IF a >= b THEN a ELSE b
Min2(a, b) == IF a <= b THEN a ELSE b

SetMax(S) == CHOOSE m \in S : \A n \in S : n <= m
SetMin(S) == CHOOSE m \in S : \A n \in S : m <= n

\* Array.prototype.reverse on a copy
Reverse(s) == [i \in 1..Len(s) |-> s[Len(s) + 1 - i]]

\* Number.isFinite(p.x) && Number.isFinite(p.y)
IsFinitePt(p) == p.fin

\* points.filter((p) => p && Number.isFinite(p.x) && Number.isFinite(p.y))
FilterFinite(points) == SelectSeq(points, IsFinitePt)

\* a.x === b.x && a.y === b.y  (NaN === NaN is false)
isSamePoint(a, b) == a.fin /\ b.fin /\ a.x = b.x /\ a.y = b.y

----------------------------------------------------------------------------
(* imageToShape.ts: point-list hygiene *)

\* one term of the shoelace sum; a term touching a non-finite point is skipped
CrossTerm(p, q) ==
  IF ~IsFinitePt(p) \/ ~IsFinitePt(q) THEN 0 ELSE p.x * q.y - q.x * p.y

RECURSIVE ShoelaceSum(_, _)
ShoelaceSum(points, i) ==
  IF i = 0 THEN 0
  ELSE ShoelaceSum(points, i - 1)
       + CrossTerm(points[i], points[(i % Len(points)) + 1])

\* signed area, in eighths of a square scene unit
polygonSignedArea(points) ==
  IF Len(points) < 3 THEN 0 ELSE ShoelaceSum(points, Len(points))

\* Math.abs(area) < 1e-4, area = area8 / 8
AreaBelowThreshold(area8) == 10000 * Abs(area8) < 8

normalizeWindingNever(points, clockwise) == points

normalizeWinding(points, clockwise) ==
  IF Len(points) < 3 THEN points
  ELSE LET isClockWise == polygonSignedArea(points) < 0
       IN  IF isClockWise = clockwise THEN points ELSE Reverse(points)

DedupConsecutiveNever(finite, i) == SubSeq(finite, 1, i)

\* the dedup loop of sanitizePolygonPoints
RECURSIVE DedupConsecutive(_, _)
DedupConsecutive(finite, i) ==
  IF i = 0 THEN <<>>
  ELSE LET deduped == DedupConsecutive(finite, i - 1)
       IN  IF Len(deduped) = 0 \/ ~isSamePoint(deduped[Len(deduped)], finite[i])
           THEN Append(deduped, finite[i])
           ELSE deduped

DropClosingPointAlways(deduped) ==
  IF Len(deduped) >= 2 THEN SubSeq(deduped, 1, Len(deduped) - 1) ELSE deduped

\* if (deduped.length >= 2 && isSamePoint(first, last)) deduped.pop()
DropClosingPoint(deduped) ==
  IF Len(deduped) >= 2 /\ isSamePoint(deduped[1], deduped[Len(deduped)])
  THEN SubSeq(deduped, 1, Len(deduped) - 1)
  ELSE deduped

sanitizePolygonPointsUnitFloor(points) ==
  LET finite == FilterFinite(points)
      deduped == DropClosingPoint(DedupConsecutive(finite, Len(finite)))
  IN  IF Len(finite) < 3 THEN <<>>
      ELSE IF Len(deduped) < 3 THEN <<>>
      ELSE IF Abs(polygonSignedArea(deduped)) <= 8 THEN <<>>
      ELSE deduped

sanitizePolygonPoints(points) ==
  LET finite == FilterFinite(points)
      deduped == DropClosingPoint(DedupConsecutive(finite, Len(finite)))
  IN  IF Len(finite) < 3 THEN <<>>
      ELSE IF Len(deduped) < 3 THEN <<>>
      ELSE IF AreaBelowThreshold(polygonSignedArea(deduped)) THEN <<>>
      ELSE deduped

ensureClosedPointsNever(points) == points

ensureClosedPoints(points) ==
  IF Len(points) < 3 THEN points
  ELSE IF isSamePoint(points[1], points[Len(points)])
       THEN points
       ELSE Append(points, points[1])

\* x - imageWidth / 2, imageHeight / 2 - y, in half units; non-finite entries skipped
CenterPt(p, imageWidth, imageHeight) ==
  Pt(2 * p.x - imageWidth, imageHeight - 2 * p.y)

RECURSIVE contourMatToPoints(_, _, _)
contourMatToPoints(flat, imageWidth, imageHeight) ==
  IF Len(flat) = 0 THEN <<>>
  ELSE LET rest == contourMatToPoints(SubSeq(flat, 1, Len(flat) - 1),
                                      imageWidth, imageHeight)
           p == flat[Len(flat)]
       IN  IF ~IsFinitePt(p) THEN rest
           ELSE Append(rest, CenterPt(p, imageWidth, imageHeight))

----------------------------------------------------------------------------
(* THREE.Path / THREE.Shape as the code uses them.  A path is the list of  *)
(* points handed to setFromPoints (its line segments join consecutive      *)
(* points), after closePath.                                               *)

\* CurvePath.closePath: add the closing segment unless end equals start
closePath(points) ==
  IF Len(points) < 2 THEN points
  ELSE IF isSamePoint(points[1], points[Len(points)]) THEN points
       ELSE Append(points, points[1])

\* CurvePath.getPoints over line segments: consecutive equal points are skipped
RECURSIVE GetPointsUpTo(_, _)
GetPointsUpTo(path, i) ==
  IF i = 0 THEN <<>>
  ELSE LET got == GetPointsUpTo(path, i - 1)
       IN  IF Len(got) > 0 /\ isSamePoint(got[Len(got)], path[i])
           THEN got
           ELSE Append(got, path[i])

getPoints(path) == IF Len(path) < 2 THEN <<>> ELSE GetPointsUpTo(path, Len(path))

buildPath(points) == closePath(ensureClosedPoints(points))

MkShape(contour, holes) == [kind |-> "shape", contour |-> contour, holes |-> holes]


----------------------------------------------------------------------------
(* buildIntersectionGeometry.ts: sanitizeShape *)

\* one iteration of shape.holes.forEach: the hole path pushed, or <<>> when skipped
sanitizeHole(hole) ==
  LET holePoints == FilterFinite(getPoints(hole))
  IN  IF Len(holePoints) < 3 THEN <<>>
      ELSE IF AreaBelowThreshold(polygonSignedArea(holePoints)) THEN <<>>
      ELSE closePath(IF polygonSignedArea(holePoints) < 0
                     THEN holePoints
                     ELSE Reverse(holePoints))

RECURSIVE sanitizeHoles(_)
sanitizeHoles(holes) ==
  IF Len(holes) = 0 THEN <<>>
  ELSE LET rest == sanitizeHoles(SubSeq(holes, 1, Len(holes) - 1))
           h == sanitizeHole(holes[Len(holes)])
       IN  IF Len(h) = 0 THEN rest ELSE Append(rest, h)

sanitizeShape(shape) ==
  LET contour == FilterFinite(getPoints(shape.contour))
  IN  IF Len(contour) < 3 THEN Null
      ELSE IF AreaBelowThreshold(polygonSignedArea(contour)) THEN Null
      ELSE MkShape(IF polygonSignedArea(contour) < 0 THEN Reverse(contour) ELSE contour,
                   sanitizeHoles(shape.holes))

----------------------------------------------------------------------------
(* Meshes.  A BufferGeometry is held as the solid it bounds: a finite set  *)
(* of axis-aligned boxes (cells) with integer corners over one denominator *)
(* (position = corner / den).  Its vertices are the corners the solid      *)
(* keeps, so its bounding box is that of the cells; the empty geometry has *)
(* no cell.  The silhouettes the builder is run on are rectangles with     *)
(* rectangular holes inside them, for which this is exact.                 *)

View == {"front", "top", "side"}

Box(lo, hi) == [lo |-> lo, hi |-> hi]

RECURSIVE Gcd(_, _)
Gcd(a, b) == IF b = 0 THEN Abs(a) ELSE Gcd(b, a % Abs(b))

RECURSIVE GcdOf(_, _)
GcdOf(S, acc) ==
  IF S = {} \/ acc = 1 THEN acc
  ELSE LET n == CHOOSE m \in S : TRUE IN GcdOf(S \ {n}, Gcd(n, acc))

\* positions corner / den, kept in lowest terms
Geometry(cells, den) ==
  LET g == GcdOf(UNION {{c.lo[i], c.hi[i]} : c \in cells, i \in 1..3}, den)
  IN  [kind |-> "geometry",
       cells |-> {Box([i \in 1..3 |-> c.lo[i] \div g], [i \in 1..3 |-> c.hi[i] \div g]) :
                    c \in cells},
       den |-> den \div g]

HasVolume(b) == \A i \in 1..3 : b.lo[i] < b.hi[i]

\* neighbouring pairs of a finite set of integers
Consecutive(S) == {pr \in S \X S : pr[1] < pr[2] /\ ~\E c \in S : pr[1] < c /\ c < pr[2]}

\* bounding rectangle of a point list
Rect2(points) ==
  [x0 |-> SetMin({points[i].x : i \in 1..Len(points)}),
   x1 |-> SetMax({points[i].x : i \in 1..Len(points)}),
   y0 |-> SetMin({points[i].y : i \in 1..Len(points)}),
   y1 |-> SetMax({points[i].y : i \in 1..Len(points)})]

\* new THREE.ExtrudeGeometry(shape, {depth, bevelEnabled: false, steps: 1}):
\* the prism over the contour minus the holes, from z = 0 to z = depth
ExtrudeGeometry(shape, extrudeDepth) ==
  LET outer == Rect2(getPoints(shape.contour))
      holes == {Rect2(getPoints(shape.holes[i])) : i \in 1..Len(shape.holes)}
      xs == {outer.x0, outer.x1} \cup {h.x0 : h \in holes} \cup {h.x1 : h \in holes}
      ys == {outer.y0, outer.y1} \cup {h.y0 : h \in holes} \cup {h.y1 : h \in holes}
      InRect(xp, yp, r) ==
        r.x0 <= xp[1] /\ xp[2] <= r.x1 /\ r.y0 <= yp[1] /\ yp[2] <= r.y1
      kept == {c \in Consecutive(xs) \X Consecutive(ys) :
                 /\ InRect(c[1], c[2], outer)
                 /\ ~\E h \in holes : InRect(c[1], c[2], h)}
  IN  Geometry({Box(<<c[1][1], c[2][1], 0>>, <<c[1][2], c[2][2], 2 * extrudeDepth>>) :
                  c \in kept}, 2)

\* geometry.computeBoundingBox() of a geometry that has vertices
BoundingBox(g) ==
  Box([i \in 1..3 |-> SetMin({c.lo[i] : c \in g.cells})],
      [i \in 1..3 |-> SetMax({c.hi[i] : c \in g.cells})])

\* box.getSize(): zero for the empty box
BoxSize(g) ==
  IF g.cells = {} THEN <<0, 0, 0>>
  ELSE LET bb == BoundingBox(g) IN [i \in 1..3 |-> bb.hi[i] - bb.lo[i]]

\* geometry.scale(s, s, s), s = num / den
ScaleGeometry(g, num, den) ==
  Geometry({Box([i \in 1..3 |-> num * c.lo[i]], [i \in 1..3 |-> num * c.hi[i]]) :
              c \in g.cells}, den)

\* translate by minus the bounding-box centre ((0,0,0) for the empty box);
\* computeVertexNormals leaves the positions alone
centerGeometry(g) ==
  IF g.cells = {} THEN g
  ELSE LET bb == BoundingBox(g)
           Shift(v) == [i \in 1..3 |-> 2 * v[i] - (bb.lo[i] + bb.hi[i])]
       IN  Geometry({Box(Shift(c.lo), Shift(c.hi)) : c \in g.cells}, 2 * g.den)

\* geometry.rotateX(Math.PI / 2): (x, y, z) -> (x, -z, y)
rotateX(g) ==
  Geometry({Box(<<c.lo[1], 0 - c.hi[3], c.lo[2]>>, <<c.hi[1], 0 - c.lo[3], c.hi[2]>>) :
              c \in g.cells}, g.den)

\* geometry.rotateY(Math.PI / 2): (x, y, z) -> (z, y, -x)
rotateY(g) ==
  Geometry({Box(<<c.lo[3], c.lo[2], 0 - c.hi[1]>>, <<c.hi[3], c.hi[2], 0 - c.lo[1]>>) :
              c \in g.cells}, g.den)

normalizeGeometrySizeNoCenter(g, targetMaxDimension) ==
  LET size == BoxSize(g)
      maxDim == SetMax({size[1], size[2], size[3]})
  IN  IF maxDim <= 0 THEN g ELSE ScaleGeometry(g, targetMaxDimension, maxDim)

normalizeGeometrySizeNoGuard(g, targetMaxDimension) ==
  LET size == BoxSize(g)
      maxDim == SetMax({size[1], size[2], size[3]})
  IN  IF maxDim <= 0 THEN [kind |-> "geometry", cells |-> g.cells, den |-> 0]
      ELSE centerGeometry(ScaleGeometry(g, targetMaxDimension, maxDim))

normalizeGeometrySizeDropEmpty(g, targetMaxDimension) ==
  LET size == BoxSize(g)
      maxDim == SetMax({size[1], size[2], size[3]})
  IN  IF maxDim <= 0 THEN Null
      ELSE centerGeometry(ScaleGeometry(g, targetMaxDimension, maxDim))

\* scale by targetMaxDimension / maxDim (maxDim = maxDimNum / den), then centre
normalizeGeometrySize(g, targetMaxDimension) ==
  LET size == BoxSize(g)
      maxDim == SetMax({size[1], size[2], size[3]})
  IN  IF maxDim <= 0 THEN g
      ELSE centerGeometry(ScaleGeometry(g, targetMaxDimension, maxDim))

createFrontGeometry(shape, extrudeDepth) ==
  centerGeometry(ExtrudeGeometry(shape, extrudeDepth))

createTopGeometryUnrotated(shape, extrudeDepth) ==
  centerGeometry(ExtrudeGeometry(shape, extrudeDepth))

createTopGeometry(shape, extrudeDepth) ==
  rotateX(centerGeometry(ExtrudeGeometry(shape, extrudeDepth)))

createSideGeometryAboutX(shape, extrudeDepth) ==
  rotateX(centerGeometry(ExtrudeGeometry(shape, extrudeDepth)))

createSideGeometry(shape, extrudeDepth) ==
  rotateY(centerGeometry(ExtrudeGeometry(shape, extrudeDepth)))

\* evaluator.evaluate(a, b, INTERSECTION): the common solid of two brushes
\* (their matrices are the identity), empty when they share no volume
EvaluateIntersection(a, b) ==
  LET A == {Box([i \in 1..3 |-> c.lo[i] * b.den], [i \in 1..3 |-> c.hi[i] * b.den]) :
              c \in a.cells}
      B == {Box([i \in 1..3 |-> c.lo[i] * a.den], [i \in 1..3 |-> c.hi[i] * a.den]) :
              c \in b.cells}
      Meet(c, d) == Box([i \in 1..3 |-> Max2(c.lo[i], d.lo[i])],
                        [i \in 1..3 |-> Min2(c.hi[i], d.hi[i])])
  IN  Geometry({Meet(pr[1], pr[2]) : pr \in {q \in A \X B : HasVolume(Meet(q[1], q[2]))}},
               a.den * b.den)

----------------------------------------------------------------------------
(* SpecSanitize: the point-list functions applied to every bounded input *)

GridPts == {Pt(x, y) : x \in GridX, y \in GridY}

RawSeqs == UNION {[1..n -> GridPts \cup {NaNPt}] : n \in 0..MaxLen}

\* two image sizes: one even, one odd (half-unit centering)
ImageSizes == {<<2, 2>>, <<3, 5>>}

\* the points of a raw pixel sequence as scene points, non-finite ones kept
ScenePoints(raw, w, h) ==
  [i \in 1..Len(raw) |-> IF IsFinitePt(raw[i]) THEN CenterPt(raw[i], w, h) ELSE raw[i]]

\* extractShapesFromBinaryMat, one contour: points of approxPolyDP to stored path
ExtractOuterPoints(flat, w, h) ==
  sanitizePolygonPoints(normalizeWinding(contourMatToPoints(flat, w, h), FALSE))

ExtractHolePoints(flat, w, h) ==
  sanitizePolygonPoints(normalizeWinding(contourMatToPoints(flat, w, h), TRUE))

InitSanitize ==
  /\ sanIn \in {[raw |-> r, w |-> s[1], h |-> s[2]] : r \in RawSeqs, s \in ImageSizes}
  /\ sanOp = "none"
  /\ sanOut = <<>>

\* sanitizePolygonPoints called on the scene points
SanPoints ==
  /\ sanOp = "none"
  /\ sanOp' = "points"
  /\ sanOut' = sanitizePolygonPoints(ScenePoints(sanIn.raw, sanIn.w, sanIn.h))
  /\ UNCHANGED <<sanIn, exVars, buildVars, appVars, binVars, cvVars>>

\* the outer-contour path of the extractor: the points stored in the Shape
SanOuter ==
  /\ sanOp = "none"
  /\ sanOp' = "outer"
  /\ sanOut' = LET outerPoints == ExtractOuterPoints(sanIn.raw, sanIn.w, sanIn.h)
               IN  IF Len(outerPoints) >= 3 THEN ensureClosedPoints(outerPoints) ELSE <<>>
  /\ UNCHANGED <<sanIn, exVars, buildVars, appVars, binVars, cvVars>>

\* the hole path of the extractor: the path pushed to shape.holes
SanHole ==
  /\ sanOp = "none"
  /\ sanOp' = "hole"
  /\ sanOut' = LET holePoints == ExtractHolePoints(sanIn.raw, sanIn.w, sanIn.h)
               IN  IF Len(holePoints) >= 3 THEN buildPath(holePoints) ELSE <<>>
  /\ UNCHANGED <<sanIn, exVars, buildVars, appVars, binVars, cvVars>>

\* sanitizeShape on a shape whose contour and holes are the scene points
\* (as given, and reversed)
SanShape ==
  /\ sanOp = "none"
  /\ sanOp' = "shape"
  /\ sanOut' = LET pts == ScenePoints(sanIn.raw, sanIn.w, sanIn.h)
               IN  sanitizeShape(MkShape(pts, <<pts, Reverse(pts)>>))
  /\ UNCHANGED <<sanIn, exVars, buildVars, appVars, binVars, cvVars>>

NextSanitize == SanPoints \/ SanOuter \/ SanHole \/ SanShape

----------------------------------------------------------------------------
(* SpecExtract: extractShapesFromBinaryMat over what OpenCV returns *)

\* DEFAULT_OPTIONS.minAreaRatio = 0.0005, in ten-thousandths
MinAreaRatioE4 == 5

PxSeq(xy) == [i \in 1..Len(xy) |-> Pt(xy[i][1], xy[i][2])]

\* What approxPolyDP / contourArea return for a contour of the mask: the
\* approximated polygon in pixel coordinates and twice cv.contourArea.
FoundContours ==
  { [approx |-> PxSeq(<< <<10, 10>>, <<10, 50>>, <<50, 50>>, <<50, 10>> >>), area2 |-> 3200],
    [approx |-> PxSeq(<< <<20, 20>>, <<40, 20>>, <<40, 40>>, <<20, 40>> >>), area2 |-> 800],
    [approx |-> PxSeq(<< <<60, 60>>, <<60, 61>>, <<61, 61>>, <<61, 60>> >>), area2 |-> 2],
    [approx |-> PxSeq(<< <<10, 10>>, <<50, 50>> >>), area2 |-> 3200],
    [approx |-> PxSeq(<< <<60, 10>>, <<60, 50>>, <<90, 50>>, <<60, 10>>, <<60, 10>> >>), area2 |-> 1200] }

\* RETR_CCOMP: two levels; parents[i] = 0 for an outer contour, else the index
\* of the outer contour that encloses hole i
TwoLevel(parents) ==
  \A i \in DOMAIN parents :
    parents[i] # 0 => (parents[i] # i /\ parents[parents[i]] = 0)

Forests ==
  UNION { { [found |-> f, parents |-> q] :
              f \in [1..n -> FoundContours],
              q \in {r \in [1..n -> 0..n] : TwoLevel(r)} } : n \in 0..MaxContours }

\* hierarchy slots as findContours fills them (0 stands for -1)
HierarchyParent(forest, i) == forest.parents[i]

HierarchyFirstChild(forest, i) ==
  LET kids == {j \in DOMAIN forest.parents : forest.parents[j] = i}
  IN  IF kids = {} THEN 0 ELSE SetMin(kids)

HierarchyNext(forest, i) ==
  LET sibs == {j \in DOMAIN forest.parents :
                 j > i /\ forest.parents[j] = forest.parents[i]}
  IN  IF sibs = {} THEN 0 ELSE SetMin(sibs)

\* area < minArea, minArea = width * height * minAreaRatio, area = area2 / 2
BelowMinArea(area2, width, height) ==
  10000 * area2 < 2 * MinAreaRatioE4 * width * height

NumContours == Len(exIn.forest.found)

\* the two entry points: imageToShapeWithPreview, and imageToShape (which
\* goes through imageToShapes)
EntryPoints == {"imageToShapeWithPreview", "imageToShape"}

LoadError == "Failed to load image: blob"
BinarizeError(message) == "toBinarizedMat failed: " \o message
ExtractErrorAsBinarize(message) == "toBinarizedMat failed: " \o message
ExtractError(message) == "extractShapesFromBinaryMat failed: " \o message
NoContourError == "No valid contour found in the image."

\* buffer.delete(): the live buffers after releasing those of bs
Released(live, bs) == live \ bs

\* a delete() of a buffer that is not live (already deleted)
BadRelease(live, bs) == \E b \in bs : b \notin live

\* The OpenCV calls of toBinarizedMat's try block, in order, each with the
\* native buffers allocated on the way to it (alpha: the image has transparent
\* pixels, so the mask comes from createBinaryFromAlpha).
BinarizeCalls(alpha) ==
  IF alpha
  THEN << [call |-> "imread", before |-> {}],
          [call |-> "matFromArray", before |-> {"src", "gray"}],
          [call |-> "getStructuringElement", before |-> {"binary"}],
          [call |-> "morphologyEx open", before |-> {"kernel"}],
          [call |-> "morphologyEx close", before |-> {}] >>
  ELSE << [call |-> "imread", before |-> {}],
          [call |-> "cvtColor", before |-> {"src", "gray", "binary"}],
          [call |-> "GaussianBlur", before |-> {}],
          [call |-> "threshold", before |-> {}],
          [call |-> "countNonZero", before |-> {}],
          [call |-> "bitwise_not", before |-> {}],
          [call |-> "getStructuringElement", before |-> {}],
          [call |-> "morphologyEx open", before |-> {"kernel"}],
          [call |-> "morphologyEx close", before |-> {}] >>

\* buffers allocated when the call at index failAt throws (failAt beyond the
\* last call: none throws)
AllocatedUpTo(binarizeCalls, failAt) ==
  UNION {binarizeCalls[k].before : k \in {n \in 1..Len(binarizeCalls) : n <= failAt}}

\* the finally block of toBinarizedMat: src, gray, kernel (and morphAnchor,
\* which has no delete) are released; binary is not
BinarizeFinally(live) == Released(live, live \cap {"src", "gray", "kernel"})

InitExtract ==
  /\ exIn \in {[forest |-> f, width |-> 100, height |-> 81, keepLargestContour |-> k,
                entry |-> e] :
                 f \in Forests, k \in BOOLEAN, e \in EntryPoints}
  /\ exPc = "binarize"
  /\ exI = 0
  /\ exChild = 0
  /\ exShape = Null
  /\ exCandidates = <<>>
  /\ exResult = <<>>
  /\ exLive = {}
  /\ exBad = FALSE
  /\ exErr = NoError
  /\ exOut = Null

\* imageToShapeWithPreview's catch around toBinarizedMat; imageToShapes has none
WrapBinarizeError(entry, message) ==
  IF entry = "imageToShapeWithPreview" THEN BinarizeError(message) ELSE message

\* toBinarizedMat: load the image, then the try/finally over the OpenCV calls
ExToBinarizedMat ==
  /\ exPc = "binarize"
  /\ \E loads \in BOOLEAN, alpha \in BOOLEAN :
       IF ~loads
       THEN /\ exErr' = WrapBinarizeError(exIn.entry, LoadError)
            /\ exPc' = "end"
            /\ exLive' = exLive
       ELSE \E failAt \in 1..(Len(BinarizeCalls(alpha)) + 1) :
              /\ exLive' = BinarizeFinally(exLive \cup AllocatedUpTo(BinarizeCalls(alpha), failAt))
              /\ IF failAt <= Len(BinarizeCalls(alpha))
                 THEN /\ exErr' = WrapBinarizeError(exIn.entry, ErrMessage)
                      /\ exPc' = "end"
                 ELSE /\ exErr' = exErr
                      /\ exPc' = "start"
  /\ UNCHANGED <<exIn, exI, exChild, exShape, exCandidates, exResult, exBad, exOut,
                 sanVars, buildVars, appVars, binVars, cvVars>>

\* the finally block of extractShapesFromBinaryMat
ExtractFinally(live) == Released(live, live \cap {"contours", "hierarchy"})

\* findContours; `return []` when it found nothing; it may throw
ExFindContours ==
  /\ exPc = "start"
  /\ \E throws \in BOOLEAN :
       IF throws
       THEN /\ exPc' = "exThrew"
            /\ exErr' = ErrMessage
            /\ exLive' = ExtractFinally(exLive \cup {"contours", "hierarchy"})
            /\ exI' = exI
       ELSE /\ exErr' = exErr
            /\ IF NumContours = 0
               THEN /\ exPc' = "done" /\ exI' = exI
                    /\ exLive' = ExtractFinally(exLive \cup {"contours", "hierarchy"})
               ELSE /\ exPc' = "outer" /\ exI' = 1
                    /\ exLive' = exLive \cup {"contours", "hierarchy"}
  /\ UNCHANGED <<exIn, exChild, exShape, exCandidates, exResult, exBad, exOut,
                 sanVars, buildVars, appVars, binVars, cvVars>>

\* parent !== -1: continue
ExSkipChild ==
  /\ exPc = "outer" /\ exI <= NumContours
  /\ HierarchyParent(exIn.forest, exI) # 0
  /\ exI' = exI + 1
  /\ UNCHANGED <<exIn, exPc, exChild, exShape, exCandidates, exResult,
                 exLive, exBad, exErr, exOut, sanVars, buildVars, appVars, binVars, cvVars>>

\* area < minArea: contour.delete(); continue
ExSkipSmall ==
  /\ exPc = "outer" /\ exI <= NumContours
  /\ HierarchyParent(exIn.forest, exI) = 0
  /\ BelowMinArea(exIn.forest.found[exI].area2, exIn.width, exIn.height)
  /\ exI' = exI + 1
  /\ exLive' = Released(exLive \cup {"contour"}, {"contour"})
  /\ exBad' = (exBad \/ BadRelease(exLive \cup {"contour"}, {"contour"}))
  /\ UNCHANGED <<exIn, exPc, exChild, exShape, exCandidates, exResult,
                 exErr, exOut, sanVars, buildVars, appVars, binVars, cvVars>>

\* an OpenCV call of the loop body throws for outer contour i: contourArea
\* (contour allocated) or approxPolyDP / arcLength (approxOuter allocated too);
\* the finally block releases contours and hierarchy only
ExOuterThrows ==
  /\ exPc = "outer" /\ exI <= NumContours
  /\ HierarchyParent(exIn.forest, exI) = 0
  /\ \E at \in {"contourArea", "approxPolyDP"} :
       /\ at = "approxPolyDP" =>
            ~BelowMinArea(exIn.forest.found[exI].area2, exIn.width, exIn.height)
       /\ exLive' = ExtractFinally(exLive \cup (IF at = "contourArea"
                                                 THEN {"contour"}
                                                 ELSE {"contour", "approxOuter"}))
  /\ exErr' = ErrMessage
  /\ exPc' = "exThrew"
  /\ UNCHANGED <<exIn, exI, exChild, exShape, exCandidates, exResult, exBad, exOut,
                 sanVars, buildVars, appVars, binVars, cvVars>>

\* the outer contour: approximate, centre, normalise, sanitise; a Shape when
\* at least 3 points are left, else approxOuter.delete(); contour.delete()
ExOuter ==
  /\ exPc = "outer" /\ exI <= NumContours
  /\ HierarchyParent(exIn.forest, exI) = 0
  /\ ~BelowMinArea(exIn.forest.found[exI].area2, exIn.width, exIn.height)
  /\ LET outerPoints ==
           ExtractOuterPoints(exIn.forest.found[exI].approx, exIn.width, exIn.height)
         allocated == exLive \cup {"contour", "approxOuter"}
     IN  IF Len(outerPoints) >= 3
         THEN /\ exShape' = MkShape(ensureClosedPoints(outerPoints), <<>>)
              /\ exChild' = HierarchyFirstChild(exIn.forest, exI)
              /\ exPc' = "holes"
              /\ exI' = exI
              /\ exLive' = allocated
              /\ exBad' = exBad
         ELSE /\ exI' = exI + 1
              /\ exLive' = Released(allocated, {"contour", "approxOuter"})
              /\ exBad' = (exBad \/ BadRelease(allocated, {"contour", "approxOuter"}))
              /\ UNCHANGED <<exPc, exChild, exShape>>
  /\ UNCHANGED <<exIn, exCandidates, exResult, exErr, exOut, sanVars, buildVars, appVars, binVars, cvVars>>

\* an OpenCV call throws in the hole loop: contourArea (holeContour
\* allocated) or approxPolyDP / arcLength (approxHole allocated too)
ExHoleThrows ==
  /\ exPc = "holes" /\ exChild # 0
  /\ \E at \in {"contourArea", "approxPolyDP"} :
       /\ at = "approxPolyDP" =>
            ~BelowMinArea(exIn.forest.found[exChild].area2, exIn.width, exIn.height)
       /\ exLive' = ExtractFinally(exLive \cup (IF at = "contourArea"
                                                 THEN {"holeContour"}
                                                 ELSE {"holeContour", "approxHole"}))
  /\ exErr' = ErrMessage
  /\ exPc' = "exThrew"
  /\ UNCHANGED <<exIn, exI, exChild, exShape, exCandidates, exResult, exBad, exOut,
                 sanVars, buildVars, appVars, binVars, cvVars>>

\* one turn of the while loop over the holes of contour i
ExHole ==
  /\ exPc = "holes" /\ exChild # 0
  /\ LET holeContour == exIn.forest.found[exChild]
         holePoints == ExtractHolePoints(holeContour.approx, exIn.width, exIn.height)
         big == ~BelowMinArea(holeContour.area2, exIn.width, exIn.height)
         allocated == exLive \cup {"holeContour"} \cup (IF big THEN {"approxHole"} ELSE {})
         deleted == {"holeContour"} \cup (IF big THEN {"approxHole"} ELSE {})
     IN  /\ exShape' =
               IF big /\ Len(holePoints) >= 3
               THEN [exShape EXCEPT !.holes = Append(@, buildPath(holePoints))]
               ELSE exShape
         /\ exLive' = Released(allocated, deleted)
         /\ exBad' = (exBad \/ BadRelease(allocated, deleted))
  /\ exChild' = HierarchyNext(exIn.forest, exChild)
  /\ UNCHANGED <<exIn, exPc, exI, exCandidates, exResult, exErr, exOut, sanVars, buildVars, appVars, binVars, cvVars>>

\* candidates.push({ shape, area }); approxOuter.delete(); contour.delete()
ExPushCandidate ==
  /\ exPc = "holes" /\ exChild = 0
  /\ exCandidates' = Append(exCandidates,
                             [shape |-> exShape, area2 |-> exIn.forest.found[exI].area2])
  /\ exShape' = Null
  /\ exI' = exI + 1
  /\ exPc' = "outer"
  /\ exLive' = Released(exLive, {"approxOuter", "contour"})
  /\ exBad' = (exBad \/ BadRelease(exLive, {"approxOuter", "contour"}))
  /\ UNCHANGED <<exIn, exChild, exResult, exErr, exOut, sanVars, buildVars, appVars, binVars, cvVars>>

LargestCandidateLast(candidates) ==
  LET best == CHOOSE i \in 1..Len(candidates) :
                \A j \in 1..Len(candidates) :
                  \/ candidates[j].area2 < candidates[i].area2
                  \/ (candidates[j].area2 = candidates[i].area2 /\ j <= i)
  IN  candidates[best]

\* candidates.sort((a, b) => b.area - a.area)[0]: the sort is stable
LargestCandidate(candidates) ==
  LET best == CHOOSE i \in 1..Len(candidates) :
                \A j \in 1..Len(candidates) :
                  \/ candidates[j].area2 < candidates[i].area2
                  \/ (candidates[j].area2 = candidates[i].area2 /\ i <= j)
  IN  candidates[best]

\* after the loop: [], the largest candidate, or all of them; then the
\* finally block
ExReturn ==
  /\ exPc = "outer" /\ exI > NumContours
  /\ exResult' =
       IF Len(exCandidates) = 0 THEN <<>>
       ELSE IF exIn.keepLargestContour THEN << LargestCandidate(exCandidates).shape >>
       ELSE [i \in 1..Len(exCandidates) |-> exCandidates[i].shape]
  /\ exPc' = "done"
  /\ exLive' = ExtractFinally(exLive)
  /\ UNCHANGED <<exIn, exI, exChild, exShape, exCandidates, exBad, exErr, exOut,
                 sanVars, buildVars, appVars, binVars, cvVars>>

\* Math.round of a coordinate held in half units, back in half units
RoundHalf(h) == 2 * ((h + 1) \div 2)

\* areaOf(candidate): |cv.contourArea| of the rounded points of the outer contour
areaOf(shape) ==
  LET points == getPoints(shape.contour)
      rounded == [k \in 1..Len(points) |->
                    Pt(RoundHalf(points[k].x), RoundHalf(points[k].y))]
  IN  IF Len(points) < 3 THEN 0 ELSE Abs(polygonSignedArea(rounded))

\* let shape = shapes[0]; for i >= 1: if (areaOf(shapes[i]) > bestArea) take it
RECURSIVE BestShapeUpTo(_, _)
BestShapeUpTo(found, n) ==
  IF n = 1 THEN found[1]
  ELSE LET best == BestShapeUpTo(found, n - 1)
       IN  IF areaOf(found[n]) > areaOf(best) THEN found[n] ELSE best

SelectShape(found) == BestShapeUpTo(found, Len(found))

EntryOutcomeNoAbort(entry, extractThrew, found) ==
  IF extractThrew
  THEN [error |-> IF entry = "imageToShapeWithPreview"
                  THEN ExtractError(ErrMessage) ELSE ErrMessage,
        shape |-> Null]
  ELSE IF Len(found) = 0 THEN [error |-> NoError, shape |-> Null]
  ELSE [error |-> NoError, shape |-> SelectShape(found)]

\* what the entry point does with the extractor's outcome: the error it
\* throws (NoError: none) and the shape it returns
EntryOutcome(entry, extractThrew, found) ==
  IF extractThrew
  THEN [error |-> IF entry = "imageToShapeWithPreview"
                  THEN ExtractError(ErrMessage) ELSE ErrMessage,
        shape |-> Null]
  ELSE IF Len(found) = 0 THEN [error |-> NoContourError, shape |-> Null]
  ELSE [error |-> NoError, shape |-> SelectShape(found)]

\* the rest of imageToShapeWithPreview / imageToShapes + imageToShape after
\* the extractor returned or threw, with the finally that releases the mask
ExEntryReturn ==
  /\ exPc \in {"done", "exThrew"}
  /\ LET o == EntryOutcome(exIn.entry, exPc = "exThrew", exResult)
     IN  exErr' = o.error /\ exOut' = o.shape
  /\ exLive' = Released(exLive, {"binary"})
  /\ exBad' = (exBad \/ BadRelease(exLive, {"binary"}))
  /\ exPc' = "end"
  /\ UNCHANGED <<exIn, exI, exChild, exShape, exCandidates, exResult, sanVars, buildVars, appVars, binVars, cvVars>>

NextExtract ==
  \/ ExToBinarizedMat \/ ExFindContours \/ ExSkipChild \/ ExSkipSmall
  \/ ExOuterThrows \/ ExOuter \/ ExHoleThrows \/ ExHole \/ ExPushCandidate
  \/ ExReturn \/ ExEntryReturn

----------------------------------------------------------------------------
(* extractShapesFromBinaryMat and imageToShapeWithPreview as functions of   *)
(* what OpenCV returns for the image: the value the steps above arrive at   *)
(* when no OpenCV call throws.                                              *)

\* the holes of outer contour i, in sibling order, from child on
RECURSIVE HolesFrom(_, _, _, _)
HolesFrom(forest, child, width, height) ==
  IF child = 0 THEN <<>>
  ELSE LET holeContour == forest.found[child]
           holePoints == ExtractHolePoints(holeContour.approx, width, height)
           rest == HolesFrom(forest, HierarchyNext(forest, child), width, height)
       IN  IF ~BelowMinArea(holeContour.area2, width, height) /\ Len(holePoints) >= 3
           THEN <<buildPath(holePoints)>> \o rest
           ELSE rest

\* candidates[] after the loop has handled contours 1..n
RECURSIVE CandidatesUpTo(_, _, _, _)
CandidatesUpTo(forest, n, width, height) ==
  IF n = 0 THEN <<>>
  ELSE LET before == CandidatesUpTo(forest, n - 1, width, height)
           outerPoints == ExtractOuterPoints(forest.found[n].approx, width, height)
       IN  IF \/ HierarchyParent(forest, n) # 0
              \/ BelowMinArea(forest.found[n].area2, width, height)
              \/ Len(outerPoints) < 3
           THEN before
           ELSE Append(before,
                       [shape |-> MkShape(ensureClosedPoints(outerPoints),
                                          HolesFrom(forest, HierarchyFirstChild(forest, n),
                                                    width, height)),
                        area2 |-> forest.found[n].area2])

extractShapesFromBinaryMat(forest, width, height, keepLargestContour) ==
  LET candidates == CandidatesUpTo(forest, Len(forest.found), width, height)
  IN  IF Len(candidates) = 0 THEN <<>>
      ELSE IF keepLargestContour THEN << LargestCandidate(candidates).shape >>
      ELSE [i \in 1..Len(candidates) |-> candidates[i].shape]

\* imageToShapeWithPreview(url, {keepLargestContour: true, ...}) for an image:
\* the error it throws (NoError: none) and the shape it returns.  image.loads:
\* the URL loads; image.fault: the OpenCV call that throws on this image
\* ("none", "binarize", "extract").
imageToShapeWithPreview(image) ==
  IF ~image.loads THEN [error |-> BinarizeError(LoadError), shape |-> Null]
  ELSE IF image.fault = "binarize" THEN [error |-> BinarizeError(ErrMessage), shape |-> Null]
  ELSE EntryOutcome("imageToShapeWithPreview", image.fault = "extract",
                    IF image.fault = "extract" THEN <<>>
                    ELSE extractShapesFromBinaryMat(image.forest, image.width,
                                                    image.height, TRUE))

----------------------------------------------------------------------------
(* App.tsx: the extrusion depth *)

MIN_EXTRUSION_DEPTH == 300

\* largest bounding-box edge of the contour, in half units
getShapeMaxDimension(shape) ==
  LET points == FilterFinite(getPoints(shape.contour))
  IN  IF Len(points) < 2 THEN 0
      ELSE LET r == Rect2(points) IN Max2(r.x1 - r.x0, r.y1 - r.y0)

\* Math.ceil(maxDimension * 2.5), maxDimension = half / 2
CeilTimes2p5(half) == (5 * half + 3) \div 4

computeExtrusionDepthFloor(shapesByView) ==
  LET present == {v \in View : shapesByView[v] # Null}
      maxDimension == SetMax({0} \cup {getShapeMaxDimension(shapesByView[v]) : v \in present})
  IN  IF present = {} THEN MIN_EXTRUSION_DEPTH
      ELSE IF maxDimension <= 0 THEN MIN_EXTRUSION_DEPTH
      ELSE Max2(MIN_EXTRUSION_DEPTH, (5 * maxDimension) \div 4)

computeExtrusionDepthFloorOnly(shapesByView) == MIN_EXTRUSION_DEPTH

computeExtrusionDepth(shapesByView) ==
  LET present == {v \in View : shapesByView[v] # Null}
      maxDimension == SetMax({0} \cup {getShapeMaxDimension(shapesByView[v]) : v \in present})
  IN  IF present = {} THEN MIN_EXTRUSION_DEPTH
      ELSE IF maxDimension <= 0 THEN MIN_EXTRUSION_DEPTH
      ELSE Max2(MIN_EXTRUSION_DEPTH, CeilTimes2p5(maxDimension))

----------------------------------------------------------------------------
(* Spec: App's resultGeometry memo running buildIntersectionGeometry *)

TARGET_MAX_DIMENSION == 120

MissingError == "one or more input shapes are missing"
SanitizeError == "shape sanitization failed (invalid contour or too small area)"
ExtrudeError(view) == view \o " extrude failed: " \o ErrMessage
CsgError == "csg intersection failed: " \o ErrMessage

\* the corners of a rectangle, counter-clockwise in the Y-up frame, from
\* scene units to half units
RectPts(x0, y0, w, h) ==
  << Pt(2 * x0, 2 * y0), Pt(2 * (x0 + w), 2 * y0),
     Pt(2 * (x0 + w), 2 * (y0 + h)), Pt(2 * x0, 2 * (y0 + h)) >>

\* a Shape as the extractor stores it: closed outer contour, clockwise closed holes
ExtractedShape(outerPts, holePts) ==
  MkShape(ensureClosedPoints(outerPts),
          [i \in 1..Len(holePts) |-> buildPath(Reverse(holePts[i]))])

\* The silhouettes a view may hold.
ShapeCatalog ==
  { Null,
    \* the square of the cube scenario, centred on the image
    ExtractedShape(RectPts(0 - (UnitSide \div 2), 0 - (UnitSide \div 2), UnitSide, UnitSide), <<>>),
    \* a tall rectangle away from the image centre, clockwise, not closed
    MkShape(Reverse(RectPts(10, 0 - 20, 40, TallSide)), <<>>),
    \* a square with a hole that is off its centre
    ExtractedShape(RectPts(0, 0, 100, 100), << RectPts(20, 20, 45, 60) >>),
    \* small and medium squares away from the image centre
    ExtractedShape(RectPts(30, 30, 20, 20), <<>>),
    ExtractedShape(RectPts(0 - 70, 5, 50, 50), <<>>),
    \* three points on a line: no area
    MkShape(<< Pt(0, 0), Pt(20, 20), Pt(40, 40) >>, <<>>),
    \* a square one of whose stored points is not finite
    MkShape(<< Pt(0, 0), Pt(60, 0), NaNPt, Pt(60, 60), Pt(0, 60) >>, <<>>) }

NoShapes == [v \in View |-> Null]

FailureKeepsGeometry(message) == [geometry |-> Geometry({}, 1), error |-> message]

Failure(message) == [geometry |-> Null, error |-> message]

InitBuild ==
  /\ shapes \in [View -> ShapeCatalog]
  /\ depth = MIN_EXTRUSION_DEPTH
  /\ pc = "render"
  /\ safe = NoShapes
  /\ geos = NoShapes
  /\ result = Null
  /\ out = [geometry |-> Null, error |-> NoError]
  /\ calls = <<>>
  /\ thrown = NoError
  /\ resultGeometry = Null

RenderDepthKeepsLarger ==
  /\ pc = "render"
  /\ depth' = Max2(depth, computeExtrusionDepth(shapes))
  /\ pc' = "guard"
  /\ UNCHANGED <<shapes, safe, geos, result, out, calls, thrown, resultGeometry, sanVars, exVars, appVars, binVars, cvVars>>

\* useMemo(() => computeExtrusionDepth(shapes), [shapes])
RenderDepth ==
  /\ pc = "render"
  /\ depth' = computeExtrusionDepth(shapes)
  /\ pc' = "guard"
  /\ UNCHANGED <<shapes, safe, geos, result, out, calls, thrown, resultGeometry, sanVars, exVars, appVars, binVars, cvVars>>

MissingInput(shapesByView) == \E v \in View : shapesByView[v] = Null

MissingOutcomeWrongMessage == Failure(SanitizeError)

MissingOutcome == Failure(MissingError)

\* if (!shapes.front || !shapes.top || !shapes.side) return {geometry: null, ...}
MissingGuard ==
  /\ pc = "guard"
  /\ MissingInput(shapes)
  /\ out' = MissingOutcome
  /\ pc' = "done"
  /\ UNCHANGED <<shapes, depth, safe, geos, result, calls, thrown, resultGeometry, sanVars, exVars, appVars, binVars, cvVars>>

\* the three sanitizeShape calls and the check of their results
Sanitize ==
  /\ pc = "guard"
  /\ ~MissingInput(shapes)
  /\ safe' = [v \in View |-> sanitizeShape(shapes[v])]
  /\ calls' = Append(calls, "sanitize")
  /\ IF \E v \in View : safe'[v] = Null
     THEN out' = Failure(SanitizeError) /\ pc' = "done"
     ELSE out' = out /\ pc' = "front"
  /\ UNCHANGED <<shapes, depth, geos, result, thrown, resultGeometry, sanVars, exVars, appVars, binVars, cvVars>>

\* one create<View>Geometry call in its try/catch; ExtrudeGeometry may throw
ExtrudeCall(view, next, geometry) ==
  /\ \E throws \in BOOLEAN :
       IF throws
       THEN /\ calls' = Append(calls, "extrude " \o view \o " throws")
            /\ out' = Failure(ExtrudeError(view))
            /\ pc' = "done"
            /\ geos' = geos
       ELSE /\ calls' = Append(calls, "extrude " \o view)
            /\ geos' = [geos EXCEPT ![view] = geometry]
            /\ pc' = next
            /\ out' = out
  /\ UNCHANGED <<shapes, depth, safe, result, thrown, resultGeometry, sanVars, exVars, appVars, binVars, cvVars>>

ExtrudeFront ==
  /\ pc = "front"
  /\ ExtrudeCall("front", "top", createFrontGeometry(safe["front"], depth))

ExtrudeTop ==
  /\ pc = "top"
  /\ ExtrudeCall("top", "side", createTopGeometry(safe["top"], depth))

ExtrudeSide ==
  /\ pc = "side"
  /\ ExtrudeCall("side", "csg1", createSideGeometry(safe["side"], depth))

CsgStep1SideFirst ==
  /\ pc = "csg1"
  /\ calls' = Append(calls, "evaluate result side")
  /\ result' = EvaluateIntersection(geos["front"], geos["side"])
  /\ pc' = "csg2"
  /\ UNCHANGED <<shapes, depth, safe, geos, out, thrown, resultGeometry, sanVars, exVars, appVars, binVars, cvVars>>

\* result = evaluator.evaluate(brushFront, brushTop, INTERSECTION)
CsgStep1 ==
  /\ pc = "csg1"
  /\ \E throws \in BOOLEAN :
       IF throws
       THEN /\ calls' = Append(calls, "evaluate front top throws")
            /\ out' = Failure(CsgError)
            /\ pc' = "done"
            /\ result' = result
       ELSE /\ calls' = Append(calls, "evaluate front top")
            /\ result' = EvaluateIntersection(geos["front"], geos["top"])
            /\ pc' = "csg2"
            /\ out' = out
  /\ UNCHANGED <<shapes, depth, safe, geos, thrown, resultGeometry, sanVars, exVars, appVars, binVars, cvVars>>

\* result = evaluator.evaluate(result, brushSide, INTERSECTION)
CsgStep2 ==
  /\ pc = "csg2"
  /\ \E throws \in BOOLEAN :
       IF throws
       THEN /\ calls' = Append(calls, "evaluate result side throws")
            /\ out' = Failure(CsgError)
            /\ pc' = "done"
            /\ result' = result
       ELSE /\ calls' = Append(calls, "evaluate result side")
            /\ result' = EvaluateIntersection(result, geos["side"])
            /\ pc' = "normalize"
            /\ out' = out
  /\ UNCHANGED <<shapes, depth, safe, geos, thrown, resultGeometry, sanVars, exVars, appVars, binVars, cvVars>>

SuccessOutcomeRejectEmpty(csgResult) ==
  IF csgResult.cells = {} THEN Failure(CsgError)
  ELSE [geometry |-> normalizeGeometrySize(csgResult, TARGET_MAX_DIMENSION),
        error |-> NoError]

\* geometry = normalizeGeometrySize(result.geometry.clone(), TARGET_MAX_DIMENSION);
\* return {geometry, error: null}
SuccessOutcome(csgResult) ==
  [geometry |-> normalizeGeometrySize(csgResult, TARGET_MAX_DIMENSION),
   error |-> NoError]

Normalize ==
  /\ pc = "normalize"
  /\ calls' = Append(calls, "normalize")
  /\ out' = SuccessOutcome(result)
  /\ pc' = "done"
  /\ UNCHANGED <<shapes, depth, safe, geos, result, thrown, resultGeometry, sanVars, exVars, appVars, binVars, cvVars>>

\* buildIntersectionGeometryWithDebug(shapes, depth) as a function of its
\* arguments: the value the steps above arrive at when no library call throws
buildIntersectionGeometryWithDebug(shapesByView, d) ==
  IF MissingInput(shapesByView) THEN MissingOutcome
  ELSE LET safeShapes == [v \in View |-> sanitizeShape(shapesByView[v])]
       IN  IF \E v \in View : safeShapes[v] = Null THEN Failure(SanitizeError)
           ELSE SuccessOutcome(
                  EvaluateIntersection(
                    EvaluateIntersection(createFrontGeometry(safeShapes["front"], d),
                                         createTopGeometry(safeShapes["top"], d)),
                    createSideGeometry(safeShapes["side"], d)))

\* buildIntersectionGeometry throws debug.error or returns debug.geometry;
\* App's resultGeometry memo turns the throw into null
Deliver ==
  /\ pc = "done"
  /\ thrown' = out.error
  /\ resultGeometry' = IF out.error # NoError THEN Null ELSE out.geometry
  /\ pc' = "returned"
  /\ UNCHANGED <<shapes, depth, safe, geos, result, out, calls, sanVars, exVars, appVars, binVars, cvVars>>

NextBuild ==
  \/ RenderDepth \/ MissingGuard \/ Sanitize
  \/ ExtrudeFront \/ ExtrudeTop \/ ExtrudeSide
  \/ CsgStep1 \/ CsgStep2 \/ Normalize \/ Deliver

----------------------------------------------------------------------------
(* App.tsx: the handlers onChangeFile, runModeling, rerunFromCachedGemini   *)
(* and processFromGeminiBlobs around the resultGeometry memo.  A handler    *)
(* runs between renders, so its steps wait for the memo to have returned;   *)
(* a step that replaces `shapes` makes the next render run the memo again.  *)

\* the user changes a file at most MaxChanges times
MaxChanges == 4

orderedViews == << "front", "top", "side" >>

NoFile == "none"

\* What OpenCV finds in the images a user can choose (after Gemini and the
\* blue-to-transparent conversion, which keep the subject).
Images ==
  [ square |-> [width |-> 100, height |-> 81,
                forest |-> [found |-> << [approx |-> PxSeq(<< <<10, 10>>, <<10, 50>>, <<50, 50>>, <<50, 10>> >>),
                                          area2 |-> 3200] >>,
                            parents |-> << 0 >>]],
    tall   |-> [width |-> 200, height |-> 400,
                forest |-> [found |-> << [approx |-> PxSeq(<< <<80, 30>>, <<80, 355>>, <<120, 355>>, <<120, 30>> >>),
                                          area2 |-> 26000] >>,
                            parents |-> << 0 >>]],
    speck  |-> [width |-> 100, height |-> 81,
                forest |-> [found |-> << [approx |-> PxSeq(<< <<60, 60>>, <<60, 61>>, <<61, 61>>, <<61, 60>> >>),
                                          area2 |-> 2],
                                         [approx |-> PxSeq(<< <<10, 10>>, <<50, 50>> >>),
                                          area2 |-> 3200] >>,
                            parents |-> << 0, 0 >>]] ]

ImageNames == DOMAIN Images

NoFiles == [v \in View |-> NoFile]

\* what can go wrong outside the program while one view is processed: the
\* blob fails to decode in convertBlueToTransparent, the object URL fails to
\* load, an OpenCV call throws in toBinarizedMat or in
\* extractShapesFromBinaryMat
ViewFaults == {"none", "convert", "load", "binarize", "extract"}

GeminiError == "Gemini did not return image data."
ConvertError == "Failed to load processed image blob."

\* no contour of the image survives the area filter and the point clean-up
NoSurvivor(name) ==
  Len(CandidatesUpTo(Images[name].forest, Len(Images[name].forest.found),
                     Images[name].width, Images[name].height)) = 0

\* convertBlueToTransparent, then imageToShapeWithPreview, for one view
ProcessOutcome(name, fault) ==
  IF fault = "convert" THEN [error |-> ConvertError, shape |-> Null]
  ELSE imageToShapeWithPreview(
         [loads |-> fault # "load",
          fault |-> IF fault \in {"binarize", "extract"} THEN fault ELSE "none",
          forest |-> Images[name].forest,
          width |-> Images[name].width, height |-> Images[name].height])

\* phase: null
NoPhase == "null"

\* `${view.toUpperCase()}: ...` for the step a view is in (the step's text is
\* given in English)
Phase(view, step) == view \o ": " \o step

\* an entry of geminiImages / transparentImages: no URL, a URL created by an
\* earlier run, or a URL created by the run in flight (or the last run)
NoUrls == [v \in View |-> "none"]

\* URL.createObjectURL(blob) for a view: the name of the URL it returns
UrlOf(kind, view) == kind \o " " \o view

\* the URLs of state map held that the run created, once the run is over or a
\* new one starts
Earlier(held) == [v \in View |-> IF held[v] = "run" THEN "earlier" ELSE held[v]]

NoRun ==
  [imageUrls |-> NoFiles, nextBlobs |-> NoFiles, nextShapes |-> NoShapes, done |-> <<>>,
   nextGeminiUrls |-> {}, nextTransparentUrls |-> {}, created |-> {}, revoked |-> {}]

AppAtRest ==
  /\ files = NoFiles
  /\ geminiBlobs = NoFiles
  /\ processing = FALSE
  /\ error = NoError
  /\ phase = NoPhase
  /\ geminiImages = NoUrls
  /\ transparentImages = NoUrls
  /\ aPc = "idle"
  /\ aView = 1
  /\ aRun = NoRun
  /\ aChanges = 0
  /\ aLast = "none"
  /\ aPrior = Null

\* setShapes(next): the next render runs the extrusionDepth and resultGeometry
\* memos again.  (Replacing all-null shapes by all-null shapes gives the memo
\* the same inputs and the same outcome; the re-run is left out.)
SetShapes(nextShapes) ==
  /\ shapes' = nextShapes
  /\ IF nextShapes = NoShapes /\ shapes = NoShapes
     THEN UNCHANGED <<pc, safe, geos, result, out, calls, thrown>>
     ELSE /\ pc' = "render"
          /\ safe' = NoShapes
          /\ geos' = NoShapes
          /\ result' = Null
          /\ out' = [geometry |-> Null, error |-> NoError]
          /\ calls' = <<>>
          /\ thrown' = NoError
  /\ UNCHANGED <<depth, resultGeometry>>

\* history: the shapes and the geometry of a finished run that are on screen
\* when the next run starts (Null: none, or a file was changed since)
PriorResult ==
  IF \A v \in View : shapes[v] # Null
  THEN [kind |-> "result", shapes |-> shapes, resultGeometry |-> resultGeometry]
  ELSE Null

\* the URLs of the run that onChangeFile revokes for a view: those the state
\* holds for it
RevokedFor(view) ==
  (IF geminiImages[view] = "run" THEN {UrlOf("gemini", view)} ELSE {})
  \cup (IF transparentImages[view] = "run" THEN {UrlOf("transparent", view)} ELSE {})

\* onChangeFile(view, file)
ChangeFile(view, file) ==
  /\ pc = "returned"
  /\ aChanges < MaxChanges
  /\ aChanges' = aChanges + 1
  /\ files' = [files EXCEPT ![view] = file]
  /\ SetShapes([shapes EXCEPT ![view] = Null])
  /\ geminiImages' = [geminiImages EXCEPT ![view] = "none"]
  /\ transparentImages' = [transparentImages EXCEPT ![view] = "none"]
  /\ aRun' = [aRun EXCEPT !.revoked = @ \cup RevokedFor(view)]
  /\ geminiBlobs' = [geminiBlobs EXCEPT ![view] = NoFile]
  /\ phase' = NoPhase
  /\ error' = NoError
  /\ aLast' = IF aPc = "idle" THEN "none" ELSE aLast
  /\ UNCHANGED <<processing, aPc, aView, aPrior, sanVars, exVars, binVars, cvVars>>

OnChangeFile == \E view \in View, file \in ImageNames \cup {NoFile} : ChangeFile(view, file)

\* runModeling up to its first await
RunModeling ==
  /\ pc = "returned"
  /\ aPc = "idle"
  /\ ~processing
  /\ \A v \in View : files[v] # NoFile
  /\ processing' = TRUE
  /\ error' = NoError
  /\ phase' = Phase("front", "sending to Gemini")
  /\ geminiImages' = NoUrls
  /\ transparentImages' = NoUrls
  /\ geminiBlobs' = NoFiles
  /\ SetShapes(NoShapes)
  /\ aRun' = [NoRun EXCEPT !.imageUrls = files]
  /\ aPc' = "gemini"
  /\ aView' = 1
  /\ aLast' = "running"
  /\ aPrior' = PriorResult
  /\ UNCHANGED <<files, aChanges, sanVars, exVars, binVars, cvVars>>

RunFailsKeepsPhase(message) ==
  /\ error' = message
  /\ SetShapes(NoShapes)
  /\ phase' = phase
  /\ processing' = FALSE
  /\ aPc' = "idle"
  /\ aLast' = "failed"

RunFailsRestoresPrior(message) ==
  /\ error' = message
  /\ SetShapes(IF aPrior # Null THEN aPrior.shapes ELSE NoShapes)
  /\ phase' = NoPhase
  /\ processing' = FALSE
  /\ aPc' = "idle"
  /\ aLast' = "failed"

\* catch (err) { setError(message); setShapes(initialShapes) } finally {
\* setPhase(null); setProcessing(false) } of runModeling and
\* rerunFromCachedGemini
RunFails(message) ==
  /\ error' = message
  /\ SetShapes(NoShapes)
  /\ phase' = NoPhase
  /\ processing' = FALSE
  /\ aPc' = "idle"
  /\ aLast' = "failed"

\* one turn of runModeling's loop: fetch the source, requestBlueBackgroundImage,
\* createObjectURL of the blob; after the last view setGeminiBlobs(nextBlobs),
\* setGeminiImages(nextGeminiUrls) and on to processFromGeminiBlobs
RequestGemini ==
  /\ pc = "returned"
  /\ aPc = "gemini"
  /\ \E ok \in BOOLEAN :
       IF ok
       THEN /\ aRun' = [aRun EXCEPT !.nextBlobs[orderedViews[aView]] =
                                       aRun.imageUrls[orderedViews[aView]],
                                    !.nextGeminiUrls = @ \cup {orderedViews[aView]},
                                    !.created = @ \cup {UrlOf("gemini", orderedViews[aView])}]
            /\ IF aView < Len(orderedViews)
               THEN /\ aView' = aView + 1
                    /\ phase' = Phase(orderedViews[aView + 1], "sending to Gemini")
                    /\ UNCHANGED <<aPc, geminiBlobs, geminiImages>>
               ELSE /\ aView' = 1
                    /\ aPc' = "process"
                    /\ geminiBlobs' = aRun'.nextBlobs
                    /\ geminiImages' = [v \in View |-> IF v \in aRun'.nextGeminiUrls
                                                       THEN "run" ELSE "none"]
                    /\ phase' = Phase("front", "making blue transparent")
            /\ UNCHANGED <<error, processing, aLast, buildVars>>
       ELSE /\ RunFails(GeminiError)
            /\ UNCHANGED <<aRun, aView, geminiBlobs, geminiImages>>
  /\ UNCHANGED <<files, transparentImages, aChanges, aPrior, sanVars, exVars, binVars, cvVars>>

\* rerunFromCachedGemini up to its first await
RerunFromCachedGemini ==
  /\ pc = "returned"
  /\ aPc = "idle"
  /\ ~processing
  /\ \A v \in View : geminiBlobs[v] # NoFile
  /\ processing' = TRUE
  /\ error' = NoError
  /\ phase' = Phase("front", "making blue transparent")
  /\ geminiImages' = Earlier(geminiImages)
  /\ transparentImages' = Earlier(transparentImages)
  /\ SetShapes(NoShapes)
  /\ aRun' = [NoRun EXCEPT !.nextBlobs = geminiBlobs]
  /\ aPc' = "process"
  /\ aView' = 1
  /\ aLast' = "running"
  /\ aPrior' = PriorResult
  /\ UNCHANGED <<files, geminiBlobs, aChanges, sanVars, exVars, binVars, cvVars>>

\* one turn of processFromGeminiBlobs' loop: convertBlueToTransparent,
\* createObjectURL of its blob, imageToShapeWithPreview; a throw goes through
\* the catch that revokes nextTransparentUrls to the caller's catch; after
\* the last view clearTransparentImages, setTransparentImages, setShapes and
\* the caller's finally
ProcessView ==
  /\ pc = "returned"
  /\ aPc = "process"
  /\ \E fault \in ViewFaults :
       LET view == orderedViews[aView]
           processed == ProcessOutcome(aRun.nextBlobs[view], fault)
           done == Append(aRun.done, [view |-> view, fault |-> fault,
                                      error |-> processed.error])
           urls == IF fault = "convert" THEN aRun.nextTransparentUrls
                   ELSE aRun.nextTransparentUrls \cup {view}
           made == IF fault = "convert" THEN aRun.created
                   ELSE aRun.created \cup {UrlOf("transparent", view)}
       IN  IF processed.error # NoError
           THEN /\ RunFails(processed.error)
                /\ aRun' = [aRun EXCEPT !.done = done,
                                        !.nextTransparentUrls = urls,
                                        !.created = made,
                                        !.revoked = @ \cup {UrlOf("transparent", v) : v \in urls}]
                /\ aView' = aView
                /\ transparentImages' = transparentImages
           ELSE /\ aRun' = [aRun EXCEPT !.done = done,
                                        !.nextShapes[view] = processed.shape,
                                        !.nextTransparentUrls = urls,
                                        !.created = made]
                /\ IF aView < Len(orderedViews)
                   THEN /\ aView' = aView + 1
                        /\ phase' = Phase(orderedViews[aView + 1], "making blue transparent")
                        /\ UNCHANGED <<aPc, aLast, processing, transparentImages, buildVars>>
                   ELSE /\ aView' = aView
                        /\ transparentImages' = [v \in View |-> IF v \in urls THEN "run"
                                                                ELSE "none"]
                        /\ SetShapes(aRun'.nextShapes)
                        /\ phase' = NoPhase
                        /\ processing' = FALSE
                        /\ aPc' = "idle"
                        /\ aLast' = "ok"
                /\ error' = error
  /\ UNCHANGED <<files, geminiBlobs, geminiImages, aChanges, aPrior, sanVars, exVars, binVars, cvVars>>

NextApp ==
  \/ OnChangeFile \/ RunModeling \/ RequestGemini \/ RerunFromCachedGemini \/ ProcessView
  \/ NextBuild

----------------------------------------------------------------------------
(* imageToShape.ts, toBinarizedMat: the mask of an image.  The image is    *)
(* one row of MaskPixels pixels; a Mat is the sequence of its values.      *)
(* binIn.alpha is the alpha channel of the canvas, binIn.gray the result   *)
(* of cvtColor and GaussianBlur (two calls of the library, whose output    *)
(* is an input of the model).                                              *)

\* pixels of the image
MaskPixels == 4

\* hasTransparentPixels: imageData[i] < 250
OpaqueAlpha == 250
\* createBinaryFromAlpha(canvas, alphaThreshold = 8)
alphaThreshold == 8
\* DEFAULT_OPTIONS.threshold and DEFAULT_OPTIONS.morphologyKernelSize
threshold == 127
morphologyKernelSize == 5

AlphaLevels == {alphaThreshold, alphaThreshold + 1, OpaqueAlpha}
GrayLevels == {threshold, threshold + 1}

hasTransparentPixels(canvas) == \E i \in 1..Len(canvas) : canvas[i] < OpaqueAlpha

createBinaryFromAlpha(canvas) ==
  [i \in 1..Len(canvas) |-> IF canvas[i] > alphaThreshold THEN 255 ELSE 0]

\* cv.threshold(gray, binary, t, 255, THRESH_BINARY): 255 where gray > t.
\* With THRESH_OTSU the library chooses t itself.
Thresholds(useOtsuThreshold) ==
  IF useOtsuThreshold THEN {threshold - 1, threshold} ELSE {threshold}

cvThreshold(gray, t) == [i \in 1..Len(gray) |-> IF gray[i] > t THEN 255 ELSE 0]

countNonZero(mat) == Cardinality({i \in 1..Len(mat) : mat[i] # 0})

bitwise_not(mat) == [i \in 1..Len(mat) |-> 255 - mat[i]]

\* the pixels under the kernel's middle row, centred on pixel i
KernelAt(mat, i) ==
  {mat[j] : j \in {k \in 1..Len(mat) : Abs(k - i) <= morphologyKernelSize \div 2}}

erode(mat) == [i \in 1..Len(mat) |-> SetMin(KernelAt(mat, i))]
dilate(mat) == [i \in 1..Len(mat) |-> SetMax(KernelAt(mat, i))]

\* morphologyEx MORPH_OPEN then MORPH_CLOSE, one iteration each
morphologyEx(mat) == erode(dilate(dilate(erode(mat))))

InitBinarize ==
  /\ binIn \in [alpha : [1..MaskPixels -> AlphaLevels],
                gray : [1..MaskPixels -> GrayLevels],
                autoInvert : BOOLEAN,
                useOtsuThreshold : BOOLEAN]
  /\ binPc = "binarize"
  /\ binSrc = [path |-> "none", mask |-> <<>>]
  /\ binary = <<>>

\* if (hasTransparentPixels(canvas)) binary = createBinaryFromAlpha(canvas)
BinarizeAlpha ==
  /\ binPc = "binarize"
  /\ hasTransparentPixels(binIn.alpha)
  /\ binary' = createBinaryFromAlpha(binIn.alpha)
  /\ binSrc' = [path |-> "alpha", mask |-> binary']
  /\ binPc' = "morphology"
  /\ UNCHANGED <<binIn, sanVars, exVars, buildVars, appVars, cvVars>>

\* else { cvtColor; GaussianBlur; cv.threshold(...) }
BinarizeLuminance ==
  /\ binPc = "binarize"
  /\ ~hasTransparentPixels(binIn.alpha)
  /\ \E t \in Thresholds(binIn.useOtsuThreshold) :
       binary' = cvThreshold(binIn.gray, t)
  /\ binSrc' = [path |-> "luminance", mask |-> binary']
  /\ binPc' = "autoInvert"
  /\ UNCHANGED <<binIn, sanVars, exVars, buildVars, appVars, cvVars>>

AutoInvertNever ==
  /\ binPc = "autoInvert"
  /\ binary' = binary
  /\ binPc' = "morphology"
  /\ UNCHANGED <<binIn, binSrc, sanVars, exVars, buildVars, appVars, cvVars>>

\* if (options.autoInvert) { if (whitePixels > totalPixels * 0.5) bitwise_not }
\* (inside the else branch of the alpha test)
AutoInvert ==
  /\ binPc = "autoInvert"
  /\ binary' = IF binIn.autoInvert /\ 2 * countNonZero(binary) > Len(binary)
               THEN bitwise_not(binary)
               ELSE binary
  /\ binPc' = "morphology"
  /\ UNCHANGED <<binIn, binSrc, sanVars, exVars, buildVars, appVars, cvVars>>

\* if (morphologyKernelSize >= 3 && morphologyIterations > 0) { open; close }
Morphology ==
  /\ binPc = "morphology"
  /\ binary' = morphologyEx(binary)
  /\ binPc' = "returned"
  /\ UNCHANGED <<binIn, binSrc, sanVars, exVars, buildVars, appVars, cvVars>>

NextBinarize == BinarizeAlpha \/ BinarizeLuminance \/ AutoInvert \/ Morphology

BinarizeAtRest ==
  /\ binIn = [alpha |-> <<>>, gray |-> <<>>, autoInvert |-> TRUE, useOtsuThreshold |-> TRUE]
  /\ binPc = "binarize"
  /\ binSrc = [path |-> "none", mask |-> <<>>]
  /\ binary = <<>>

----------------------------------------------------------------------------
(* The OpenCV loader: ensureOpenCVLoaded and useOpenCV.  An attempt is     *)
(* one promise created by ensureOpenCVLoaded, named by its position in     *)
(* `attempts`; promise 0 is a fresh Promise.resolve(), and 0 in            *)
(* openCvLoadPromise is null.  A promise's reactions run as microtasks of  *)
(* the task that settles it, so the .finally of an attempt is part of the  *)
(* step that settles it; the .then/.catch of a mount is a step of its own, *)
(* since React may run the effect's cleanup first.                         *)

\* promises ensureOpenCVLoaded may create, and useOpenCV mounts
MaxAttempts == 2
MaxMounts == 3

isOpenCVReady == cvGlobal = "ready"

NewAttempt ==
  [finished |-> FALSE, timeoutId |-> TRUE, intervalId |-> TRUE,
   state |-> "pending", message |-> "none"]

\* attachRuntimeHandler of attempt a when cv exists without Mat: chain
\* markReady behind cv.onRuntimeInitialized (a ready cv is handled by the caller)
attachRuntimeHandler(a) == IF cvGlobal = "loaded" THEN hook \cup {a} ELSE hook

\* done(fn) of every attempt of S, then the .finally and the reactions it
\* releases: finished attempts are left alone
done(S, outcome, message) ==
  LET hit == {a \in S : ~attempts[a].finished}
  IN  [attempts |-> [a \in DOMAIN attempts |->
                       IF a \in hit
                       THEN [finished |-> TRUE, timeoutId |-> FALSE, intervalId |-> FALSE,
                             state |-> outcome, message |-> message]
                       ELSE attempts[a]],
       promise |-> IF hit # {} THEN 0 ELSE openCvLoadPromise,
       mounts |-> [m \in DOMAIN mounts |->
                     IF mounts[m].got \in hit
                     THEN [mounts[m] EXCEPT !.due = outcome, !.message = message]
                     ELSE mounts[m]]]

ensureOpenCVLoadedNoReuse ==
  LET a == Len(attempts) + 1
  IN  IF isOpenCVReady
      THEN [promise |-> 0, load |-> openCvLoadPromise, attempts |-> attempts,
            script |-> script, hook |-> hook]
      ELSE [promise |-> a, load |-> a, attempts |-> Append(attempts, NewAttempt),
            script |-> IF script.state = "none"
                       THEN [inserted |-> script.inserted + 1, state |-> "loading",
                             owner |-> a]
                       ELSE script,
            hook |-> IF script.state = "none" THEN hook ELSE attachRuntimeHandler(a)]

\* ensureOpenCVLoaded(): the promise returned and the state it leaves
ensureOpenCVLoaded ==
  LET a == Len(attempts) + 1
  IN  IF isOpenCVReady
      THEN [promise |-> 0, load |-> openCvLoadPromise, attempts |-> attempts,
            script |-> script, hook |-> hook]
      ELSE IF openCvLoadPromise # 0
      THEN [promise |-> openCvLoadPromise, load |-> openCvLoadPromise,
            attempts |-> attempts, script |-> script, hook |-> hook]
      ELSE [promise |-> a, load |-> a, attempts |-> Append(attempts, NewAttempt),
            script |-> IF script.state = "none"
                       THEN [inserted |-> script.inserted + 1, state |-> "loading",
                             owner |-> a]
                       ELSE script,
            hook |-> IF script.state = "none" THEN hook ELSE attachRuntimeHandler(a)]

InitOpenCV ==
  /\ cvGlobal \in {"absent", "ready"}
  /\ script = [inserted |-> 0, state |-> "none", owner |-> 0]
  /\ hook = {}
  /\ openCvLoadPromise = 0
  /\ attempts = <<>>
  /\ mounts = <<>>

\* useOpenCV: useState(() => isOpenCVReady()), then the effect's
\* ensureOpenCVLoaded().then(...).catch(...)
Mount ==
  /\ Len(mounts) < MaxMounts
  /\ LET call == ensureOpenCVLoaded
     IN  /\ Len(call.attempts) <= MaxAttempts
         /\ mounts' = Append(mounts,
              [isReady |-> isOpenCVReady, error |-> "null", cancelled |-> FALSE,
               inFlight |-> openCvLoadPromise, ready |-> isOpenCVReady,
               got |-> call.promise,
               due |-> IF call.promise = 0 THEN "resolved" ELSE "none",
               message |-> "none"])
         /\ attempts' = call.attempts
         /\ script' = call.script
         /\ hook' = call.hook
         /\ openCvLoadPromise' = call.load
  /\ UNCHANGED <<cvGlobal, sanVars, exVars, buildVars, appVars, binVars>>

\* the effect's cleanup: cancelled = true
Unmount ==
  /\ \E m \in DOMAIN mounts :
       /\ ~mounts[m].cancelled
       /\ mounts' = [mounts EXCEPT ![m].cancelled = TRUE]
  /\ UNCHANGED <<cvGlobal, script, hook, openCvLoadPromise, attempts,
                 sanVars, exVars, buildVars, appVars, binVars>>

\* .then(() => { if (!cancelled) setIsReady(true) })
\* .catch((err) => { if (!cancelled) { setError(message); setIsReady(false) } })
Notify ==
  /\ \E m \in DOMAIN mounts :
       /\ mounts[m].due \in {"resolved", "rejected"}
       /\ mounts' = [mounts EXCEPT
            ![m].due = "run",
            ![m].isReady = IF mounts[m].cancelled THEN @
                           ELSE mounts[m].due = "resolved",
            ![m].error = IF mounts[m].cancelled \/ mounts[m].due = "resolved" THEN @
                         ELSE mounts[m].message]
  /\ UNCHANGED <<cvGlobal, script, hook, openCvLoadPromise, attempts,
                 sanVars, exVars, buildVars, appVars, binVars>>

\* the script runs (cv may appear, with or without its runtime ready) and
\* its "load" listener, a closure of the attempt that inserted it, calls
\* attachRuntimeHandler
ScriptLoad ==
  /\ script.state = "loading"
  /\ script' = [script EXCEPT !.state = "loaded"]
  /\ \E after \in (IF cvGlobal = "absent" THEN {"absent", "loaded", "ready"}
                   ELSE {cvGlobal}) :
       /\ cvGlobal' = after
       /\ LET settled == IF after = "ready" THEN done({script.owner}, "resolved", "none")
                         ELSE done({}, "resolved", "none")
          IN  /\ attempts' = settled.attempts
              /\ openCvLoadPromise' = settled.promise
              /\ mounts' = settled.mounts
       /\ hook' = IF after = "loaded" THEN hook \cup {script.owner} ELSE hook
  /\ UNCHANGED <<sanVars, exVars, buildVars, appVars, binVars>>

\* the script's "error" listener: markError of the attempt that inserted it
ScriptError ==
  /\ script.state = "loading"
  /\ script' = [script EXCEPT !.state = "failed"]
  /\ LET settled == done({script.owner}, "rejected", "script")
     IN  /\ attempts' = settled.attempts
         /\ openCvLoadPromise' = settled.promise
         /\ mounts' = settled.mounts
  /\ UNCHANGED <<cvGlobal, hook, sanVars, exVars, buildVars, appVars, binVars>>

\* the runtime finishes: cv.Mat exists and cv.onRuntimeInitialized runs
RuntimeInitialized ==
  /\ cvGlobal = "loaded"
  /\ cvGlobal' = "ready"
  /\ LET settled == done(hook, "resolved", "none")
     IN  /\ attempts' = settled.attempts
         /\ openCvLoadPromise' = settled.promise
         /\ mounts' = settled.mounts
  /\ UNCHANGED <<script, hook, sanVars, exVars, buildVars, appVars, binVars>>

\* setInterval(() => { if (isOpenCVReady()) markReady() }, 100)
Poll ==
  /\ isOpenCVReady
  /\ \E a \in DOMAIN attempts :
       /\ attempts[a].intervalId
       /\ LET settled == done({a}, "resolved", "none")
          IN  /\ attempts' = settled.attempts
              /\ openCvLoadPromise' = settled.promise
              /\ mounts' = settled.mounts
  /\ UNCHANGED <<cvGlobal, script, hook, sanVars, exVars, buildVars, appVars, binVars>>

\* setTimeout(() => markError(...), LOAD_TIMEOUT_MS)
Timeout ==
  /\ \E a \in DOMAIN attempts :
       /\ attempts[a].timeoutId
       /\ LET settled == done({a}, "rejected", "timeout")
          IN  /\ attempts' = settled.attempts
              /\ openCvLoadPromise' = settled.promise
              /\ mounts' = settled.mounts
  /\ UNCHANGED <<cvGlobal, script, hook, sanVars, exVars, buildVars, appVars, binVars>>

NextOpenCV ==
  \/ Mount \/ Unmount \/ Notify
  \/ ScriptLoad \/ ScriptError \/ RuntimeInitialized \/ Poll \/ Timeout

OpenCVAtRest ==
  /\ cvGlobal = "absent"
  /\ script = [inserted |-> 0, state |-> "none", owner |-> 0]
  /\ hook = {}
  /\ openCvLoadPromise = 0
  /\ attempts = <<>>
  /\ mounts = <<>>

----------------------------------------------------------------------------
(* Specifications.  Each runs one part of the program; the variables of   *)
(* the other parts stay at rest.                                           *)

SanitizeAtRest ==
  /\ sanIn = [raw |-> <<>>, w |-> 2, h |-> 2]
  /\ sanOp = "none"
  /\ sanOut = <<>>

ExtractAtRest ==
  /\ exIn = [forest |-> [found |-> <<>>, parents |-> <<>>], width |-> 100, height |-> 81,
             keepLargestContour |-> TRUE, entry |-> "imageToShapeWithPreview"]
  /\ exPc = "binarize"
  /\ exI = 0
  /\ exChild = 0
  /\ exShape = Null
  /\ exCandidates = <<>>
  /\ exResult = <<>>
  /\ exLive = {}
  /\ exBad = FALSE
  /\ exErr = NoError
  /\ exOut = Null

BuildAtRest ==
  /\ shapes = NoShapes
  /\ depth = MIN_EXTRUSION_DEPTH
  /\ pc = "render"
  /\ safe = NoShapes
  /\ geos = NoShapes
  /\ result = Null
  /\ out = [geometry |-> Null, error |-> NoError]
  /\ calls = <<>>
  /\ thrown = NoError
  /\ resultGeometry = Null

Init ==
  InitBuild /\ SanitizeAtRest /\ ExtractAtRest /\ AppAtRest /\ BinarizeAtRest /\ OpenCVAtRest

Spec == Init /\ [][NextBuild]_vars

InitSan ==
  InitSanitize /\ ExtractAtRest /\ BuildAtRest /\ AppAtRest /\ BinarizeAtRest /\ OpenCVAtRest

SpecSanitize == InitSan /\ [][NextSanitize]_vars

InitEx ==
  InitExtract /\ SanitizeAtRest /\ BuildAtRest /\ AppAtRest /\ BinarizeAtRest /\ OpenCVAtRest

SpecExtract == InitEx /\ [][NextExtract]_vars

InitApp ==
  AppAtRest /\ BuildAtRest /\ SanitizeAtRest /\ ExtractAtRest /\ BinarizeAtRest /\ OpenCVAtRest

SpecApp == InitApp /\ [][NextApp]_vars

InitBin ==
  InitBinarize /\ SanitizeAtRest /\ ExtractAtRest /\ BuildAtRest /\ AppAtRest /\ OpenCVAtRest

SpecBinarize == InitBin /\ [][NextBinarize]_vars

InitCv ==
  InitOpenCV /\ SanitizeAtRest /\ ExtractAtRest /\ BuildAtRest /\ AppAtRest /\ BinarizeAtRest

SpecOpenCV == InitCv /\ [][NextOpenCV]_vars

\* The App once the user has chosen the three files (one change is left
\* within MaxChanges): the first render is over, nothing has run yet.
ChosenFiles ==
  { [v \in View |-> "square"],
    [front |-> "square", top |-> "speck", side |-> "tall"] }

InitAppLive ==
  /\ files \in ChosenFiles
  /\ aChanges = MaxChanges - 1
  /\ geminiBlobs = NoFiles
  /\ processing = FALSE
  /\ error = NoError
  /\ phase = NoPhase
  /\ geminiImages = NoUrls
  /\ transparentImages = NoUrls
  /\ aPc = "idle"
  /\ aView = 1
  /\ aRun = NoRun
  /\ aLast = "none"
  /\ aPrior = Null
  /\ shapes = NoShapes
  /\ depth = MIN_EXTRUSION_DEPTH
  /\ pc = "returned"
  /\ safe = NoShapes
  /\ geos = NoShapes
  /\ result = Null
  /\ out = MissingOutcome
  /\ calls = <<>>
  /\ thrown = MissingError
  /\ resultGeometry = Null
  /\ SanitizeAtRest
  /\ ExtractAtRest
  /\ BinarizeAtRest
  /\ OpenCVAtRest

\* Every awaited call of a run settles, and React renders after each update:
\* weak fairness of RequestGemini, of ProcessView and of the render.  The last
\* two are written out, with the action's guard in the place of ENABLED: a
\* conversion step is possible exactly when a run is converting between
\* renders, a render step exactly when the memo has not returned.
SpecAppLive ==
  /\ InitAppLive
  /\ [][NextApp]_vars
  /\ WF_vars(RequestGemini)
  /\ ([]<>(~(aPc = "process" /\ pc = "returned")) \/ []<><<ProcessView>>_vars)
  /\ ([]<>(pc = "returned") \/ []<><<NextBuild>>_vars)

(**************************************************************************)
(* CLAIMS                                                                 *)
(**************************************************************************)

\* The claims measure area with their own shoelace sum (in eighths of a
\* square unit), over the finite points of a stored path.
RECURSIVE ClaimCross(_, _)
ClaimCross(pts, i) ==
  IF i = 0 THEN 0
  ELSE LET p == pts[i]
           q == pts[IF i = Len(pts) THEN 1 ELSE i + 1]
       IN  ClaimCross(pts, i - 1) + (p.x * q.y - q.x * p.y)

ClaimArea8(path) == LET pts == SelectSeq(path, IsFinitePt) IN ClaimCross(pts, Len(pts))

SanScene == ScenePoints(sanIn.raw, sanIn.w, sanIn.h)

SanRejected ==
  \/ sanOp \in {"points", "outer", "hole"} /\ sanOut = <<>>
  \/ sanOp = "shape" /\ sanOut = Null

SanAccepted == sanOp # "none" /\ ~SanRejected

\* C3: every accepted outer contour has strictly positive signed area and
\* every retained hole strictly negative signed area (extractor paths and
\* sanitizeShape), for every input point sequence.
C3_WindingInvariant ==
  /\ (sanOp = "outer" /\ SanAccepted) => ClaimArea8(sanOut) > 0
  /\ (sanOp = "hole" /\ SanAccepted) => ClaimArea8(sanOut) < 0
  /\ (sanOp = "shape" /\ SanAccepted) =>
        /\ ClaimArea8(getPoints(sanOut.contour)) > 0
        /\ \A i \in 1..Len(sanOut.holes) : ClaimArea8(getPoints(sanOut.holes[i])) < 0

\* C3 witnesses: a clockwise input accepted as an outer contour by the
\* extractor, and a shape accepted by sanitizeShape with both holes retained
C3_Witness ==
  /\ sanOp = "shape" /\ SanAccepted
  /\ Len(sanOut.holes) = 2
  /\ ClaimArea8(SanScene) < 0

\* a contour enclosing a 1 x 1 pixel area: the four corners of a unit square
\* (side 2 in half units), in either direction
Encloses1x1(pts) ==
  /\ Len(pts) = 4
  /\ \A i \in 1..4 : IsFinitePt(pts[i])
  /\ \E c \in {pts[i] : i \in 1..4} :
        {pts[i] : i \in 1..4} =
          {Pt(c.x, c.y), Pt(c.x + 2, c.y), Pt(c.x + 2, c.y + 2), Pt(c.x, c.y + 2)}
  /\ Abs(ClaimArea8(pts)) = 8

\* C5 as stated: a contour enclosing a 1 x 1 pixel area is always rejected by
\* the Sanitizer (sanitizePolygonPoints returns [] / sanitizeShape null).
C5_UnitSquareRejected ==
  (sanOp \in {"points", "shape"} /\ Encloses1x1(SanScene)) => SanRejected

\* C5 amended: a contour enclosing a 1 x 1 pixel area is accepted (area 1 is
\* not below 1e-4); fewer than 3 points are rejected; whatever the Sanitizer
\* accepts has absolute area >= 1e-4, and a clean polygon (finite, >= 3
\* points, no repeated neighbour, area >= 1e-4) is returned unchanged.
C5_AreaRejection ==
  /\ (sanOp \in {"points", "shape"} /\ Encloses1x1(SanScene)) => SanAccepted
  /\ (sanOp \in {"points", "shape"} /\ Len(SanScene) < 3) => SanRejected
  /\ (sanOp = "points" /\ SanAccepted) => 10000 * Abs(ClaimArea8(sanOut)) >= 8
  /\ (sanOp = "shape" /\ SanAccepted) =>
        10000 * Abs(ClaimArea8(getPoints(sanOut.contour))) >= 8
  /\ ( /\ sanOp = "points"
       /\ Len(SanScene) >= 3
       /\ \A i \in 1..Len(SanScene) :
            /\ IsFinitePt(SanScene[i])
            /\ SanScene[i] # SanScene[IF i = Len(SanScene) THEN 1 ELSE i + 1]
       /\ 10000 * Abs(ClaimArea8(SanScene)) >= 8 )
     => sanOut = SanScene

C5_Witness ==
  /\ sanOp = "points"
  /\ Encloses1x1(SanScene)
  /\ sanOut = SanScene

----------------------------------------------------------------------------
(* Claims about the build (Spec) *)

BuildEnded == pc \in {"done", "returned"}

Called(name) == \E i \in 1..Len(calls) : calls[i] = name

ThrowCalls ==
  {"extrude front throws", "extrude top throws", "extrude side throws",
   "evaluate front top throws", "evaluate result side throws"}

LastCallThrew == Len(calls) > 0 /\ calls[Len(calls)] \in ThrowCalls

\* C1: with any of the three shapes null the build returns geometry = null
\* and the error 'one or more input shapes are missing' (thrown by
\* buildIntersectionGeometry), and has sanitized, extruded and evaluated nothing.
C1_MissingInputGuard ==
  (BuildEnded /\ \E v \in View : shapes[v] = Null) =>
    /\ out.geometry = Null
    /\ out.error = MissingError
    /\ calls = <<>>
    /\ safe = NoShapes /\ geos = NoShapes /\ result = Null
    /\ (pc = "returned" => thrown = MissingError /\ resultGeometry = Null)

C1_Witness ==
  /\ pc = "returned"
  /\ shapes["front"] # Null /\ shapes["top"] = Null /\ shapes["side"] # Null
  /\ thrown = MissingError

\* a failure path was taken, read off the inputs and the call log
BuildFailed ==
  \/ \E v \in View : shapes[v] = Null
  \/ Called("sanitize") /\ \E v \in View : safe[v] = Null
  \/ LastCallThrew

\* C2: every outcome has exactly one of geometry and error non-null, and
\* every failure path (missing shape, sanitization, an extrusion, either CSG
\* step) returns geometry = null.
C2_NoPartialGeometry ==
  BuildEnded =>
    /\ (out.geometry = Null) # (out.error = NoError)
    /\ BuildFailed => (out.geometry = Null /\ out.error # NoError)
    /\ ~BuildFailed => (out.geometry # Null /\ out.error = NoError)

\* the second CSG step fails after the first one produced a mesh
C2_Witness ==
  /\ pc = "done"
  /\ Called("evaluate front top")
  /\ Called("evaluate result side throws")
  /\ out.geometry = Null

\* largest bounding-box edge over the present shapes, in half units, as the
\* greatest coordinate difference between two finite contour points
ClaimMaxDim ==
  LET Spread(shape) ==
        LET pts == SelectSeq(getPoints(shape.contour), IsFinitePt)
        IN  {Abs(pts[i].x - pts[j].x) : i, j \in 1..Len(pts)}
              \cup {Abs(pts[i].y - pts[j].y) : i, j \in 1..Len(pts)}
  IN  SetMax({0} \cup UNION {Spread(shapes[v]) : v \in {w \in View : shapes[w] # Null}})

\* the least integer not below 2.5 * D, D = half / 2
ClaimCeil2p5(half) == IF (5 * half) % 4 = 0 THEN (5 * half) \div 4 ELSE (5 * half) \div 4 + 1

\* C6: the depth is exactly max(300, ceil(2.5 * D)), D the largest
\* bounding-box edge over the present shapes; 300 when none is present or
\* D <= 0; hence depth >= max(300, 2.5 * D).
C6_DepthSelection ==
  pc # "render" =>
    /\ depth = Max2(300, ClaimCeil2p5(ClaimMaxDim))
    /\ ((\A v \in View : shapes[v] = Null) \/ ClaimMaxDim <= 0) => depth = 300
    /\ depth >= 300 /\ 4 * depth >= 5 * ClaimMaxDim

\* a depth above the floor that had to be rounded up
C6_Witness ==
  /\ pc # "render"
  /\ depth > 300
  /\ 4 * depth > 5 * ClaimMaxDim

AllBuilt == \A v \in View : geos[v] # Null

\* extent of geometry g along axis i, as a pair over the denominator g.den
Extent(g, i) == <<BoundingBox(g).lo[i], BoundingBox(g).hi[i]>>

\* [a.lo, a.hi] / da strictly inside [b.lo, b.hi] / db
StrictlyInside(a, da, b, db) == b[1] * da < a[1] * db /\ a[2] * db < b[2] * da

\* C7: with the shared depth, each prism's extent along its extrusion axis
\* strictly contains the extents of the other two solids along that axis,
\* and the depth exceeds every shape's width and height.
C7_NoCapping ==
  AllBuilt =>
    LET f == geos["front"]
        t == geos["top"]
        d == geos["side"]
    IN  /\ StrictlyInside(Extent(t, 3), t.den, Extent(f, 3), f.den)
        /\ StrictlyInside(Extent(d, 3), d.den, Extent(f, 3), f.den)
        /\ StrictlyInside(Extent(f, 2), f.den, Extent(t, 2), t.den)
        /\ StrictlyInside(Extent(d, 2), d.den, Extent(t, 2), t.den)
        /\ StrictlyInside(Extent(f, 1), f.den, Extent(d, 1), d.den)
        /\ StrictlyInside(Extent(t, 1), t.den, Extent(d, 1), d.den)
        /\ 2 * depth > ClaimMaxDim

\* three prisms built from a silhouette larger than the 300 floor
C7_Witness ==
  /\ AllBuilt
  /\ ClaimMaxDim > 2 * 300
  /\ depth > 300

Succeeded == BuildEnded /\ out.error = NoError /\ out.geometry # Null

\* an edge vector divided by the greatest common divisor of its entries
Proportions(size) ==
  LET g == Gcd(size[1], Gcd(size[2], size[3])) IN [i \in 1..3 |-> size[i] \div g]

\* C8: for a non-degenerate intersection mesh, after normalizeGeometrySize
\* the bounding-box centre is the origin, the largest edge is 120 and the
\* three edges keep the proportions they had (uniform scale).
C8_Centering ==
  (Succeeded /\ result.cells # {}) =>
    LET g == out.geometry
        bb == BoundingBox(g)
        after == BoxSize(g)
        before == BoxSize(result)
    IN  /\ \A i \in 1..3 : bb.lo[i] + bb.hi[i] = 0
        /\ SetMax({after[i] : i \in 1..3}) = 120 * g.den
        /\ Proportions(after) = Proportions(before)

\* an intersection that was neither centred nor 120 wide before normalization
C8_Witness ==
  /\ Succeeded /\ result.cells # {}
  /\ \E i \in 1..3 : BoundingBox(result).lo[i] + BoundingBox(result).hi[i] # 0
  /\ SetMax({BoxSize(result)[i] : i \in 1..3}) # 120 * result.den

\* a square silhouette without holes: four distinct corner points whose
\* bounding rectangle has equal, positive width and height
IsSquare(shape) ==
  /\ shape # Null
  /\ Len(shape.holes) = 0
  /\ LET pts == SelectSeq(getPoints(shape.contour), IsFinitePt)
         set == {pts[i] : i \in 1..Len(pts)}
     IN  /\ Cardinality(set) = 4
         /\ \E c \in set : \E side \in 1..2000 :
              set = {Pt(c.x, c.y), Pt(c.x + side, c.y),
                     Pt(c.x + side, c.y + side), Pt(c.x, c.y + side)}

\* the axis along which geometry g is longest
LongAxes(g) == {i \in 1..3 : \A j \in 1..3 : BoxSize(g)[j] <= BoxSize(g)[i]}

\* C9: three identical square silhouettes give a result whose bounding box
\* has equal edges (120 each) centred on the origin; the three prisms are
\* extruded along Z, Y and X and share the centre.
C9_UnitCube ==
  ( /\ BuildEnded /\ ~LastCallThrew
    /\ IsSquare(shapes["front"])
    /\ shapes["top"] = shapes["front"] /\ shapes["side"] = shapes["front"] )
  => /\ out.error = NoError
     /\ \A i \in 1..3 : BoxSize(out.geometry)[i] = 120 * out.geometry.den
     /\ \A i \in 1..3 :
          BoundingBox(out.geometry).lo[i] + BoundingBox(out.geometry).hi[i] = 0
     /\ LongAxes(geos["front"]) = {3}
     /\ LongAxes(geos["top"]) = {2}
     /\ LongAxes(geos["side"]) = {1}
     /\ \A v \in View : \A i \in 1..3 :
          BoundingBox(geos[v]).lo[i] + BoundingBox(geos[v]).hi[i] = 0

\* the scenario itself: the same square, not centred on its image, in all views
C9_Witness ==
  /\ pc = "done" /\ out.error = NoError
  /\ IsSquare(shapes["front"])
  /\ shapes["top"] = shapes["front"] /\ shapes["side"] = shapes["front"]
  /\ Rect2(getPoints(shapes["front"].contour)).x0 > 0

\* C10: when the three prisms have no common volume, the build returns the
\* empty geometry with error = null, not an error.
C10_DisjointNotError ==
  (BuildEnded /\ Called("evaluate result side") /\ result.cells = {}) =>
    /\ out.error = NoError
    /\ out.geometry # Null
    /\ out.geometry.cells = {}
    /\ (pc = "returned" => thrown = NoError /\ resultGeometry = out.geometry)

C10_Witness ==
  /\ pc = "returned"
  /\ Called("evaluate result side") /\ result.cells = {}
  /\ resultGeometry # Null

----------------------------------------------------------------------------
(* Claims about empty intersections and the order of the build (Spec) *)

\* C11 as stated: when a CSG stage yields an empty intersection, the build
\* ends with the CSG error and geometry = null.
C11_EmptyIsFailure ==
  (BuildEnded /\ Called("evaluate result side") /\ result.cells = {}) =>
    (out.geometry = Null /\ out.error = CsgError)

\* C11 amended: once the three prisms are built, the build fails (with the
\* CSG error and geometry = null) exactly when an evaluate call throws; when
\* both calls return, empty or not, it returns error = null and a geometry
\* that is empty exactly when the intersection is.
C11_CsgFailsOnlyOnThrow ==
  (BuildEnded /\ Called("extrude side")) =>
    /\ (out.error = CsgError) <=> LastCallThrew
    /\ LastCallThrew => out.geometry = Null
    /\ ~LastCallThrew =>
          /\ out.error = NoError
          /\ out.geometry # Null
          /\ (out.geometry.cells = {}) <=> (result.cells = {})

\* an empty intersection behind a front silhouette with a hole, returned
\* without an error
C11_Witness ==
  /\ pc = "done"
  /\ Called("normalize")
  /\ result.cells = {}
  /\ Len(shapes["front"].holes) > 0
  /\ out.error = NoError

----------------------------------------------------------------------------
(* Claims about the contour extractor (SpecExtract) *)

StoredPaths(shape) == {shape.contour} \cup {shape.holes[i] : i \in 1..Len(shape.holes)}

ReturnedPaths == UNION {StoredPaths(exResult[i]) : i \in 1..Len(exResult)}

NoRepeatedNeighbour(path) == \A i \in 1..(Len(path) - 1) : path[i] # path[i + 1]

\* C4 as stated: no stored contour or hole has its last vertex equal to its
\* first, and no two consecutive stored vertices coincide.
C4_ImplicitClosure ==
  exPc = "done" =>
    \A path \in ReturnedPaths : path[Len(path)] # path[1] /\ NoRepeatedNeighbour(path)

\* C4 amended: every stored contour and hole is closed explicitly: it has at
\* least 4 stored vertices, the last is a copy of the first, the one before
\* the last differs from the first, and no two consecutive stored vertices
\* coincide.
C4_ExplicitClosure ==
  exPc = "done" =>
    \A path \in ReturnedPaths :
      /\ Len(path) >= 4
      /\ path[Len(path)] = path[1]
      /\ path[Len(path) - 1] # path[1]
      /\ NoRepeatedNeighbour(path)

\* a returned shape with a hole, whose polygons came with repeated points
C4_Witness ==
  /\ exPc = "done"
  /\ \E i \in 1..Len(exResult) : Len(exResult[i].holes) > 0
  /\ \E i \in 1..NumContours :
       /\ ~NoRepeatedNeighbour(exIn.forest.found[i].approx)
       /\ exIn.forest.parents[i] = 0
       /\ \E j \in 1..Len(exResult) :
            Len(exResult[j].contour) = 4 /\ Len(exResult[j].holes) > 0

----------------------------------------------------------------------------
(* Claims about native buffers (SpecExtract) *)

\* C13: on every exit path of the entry point the mask allocated by
\* toBinarizedMat has been released, and no buffer was released twice.
C13_MaskReleased ==
  exPc = "end" => ("binary" \notin exLive /\ ~exBad)

ContourBuffers ==
  {"contours", "hierarchy", "contour", "approxOuter", "holeContour", "approxHole"}

\* C14: on every exit path of extractShapesFromBinaryMat (return or throw)
\* every buffer it allocated has been released, and none was released twice.
C14_ContourBuffersReleased ==
  exPc \in {"done", "exThrew", "end"} => (exLive \cap ContourBuffers = {} /\ ~exBad)

----------------------------------------------------------------------------
(* Claims about which contour is kept (SpecExtract) *)

\* the contours that survive: outer contours of at least the minimum area
\* whose cleaned polygon has at least 3 points
Survivors ==
  {i \in 1..NumContours :
     /\ exIn.forest.parents[i] = 0
     /\ 10000 * exIn.forest.found[i].area2 >= 2 * 5 * exIn.width * exIn.height
     /\ Len(ExtractOuterPoints(exIn.forest.found[i].approx, exIn.width, exIn.height)) >= 3}

\* the survivor of greatest area, the earliest one on ties
Winner ==
  CHOOSE i \in Survivors :
    \A j \in Survivors :
      \/ exIn.forest.found[j].area2 < exIn.forest.found[i].area2
      \/ (exIn.forest.found[j].area2 = exIn.forest.found[i].area2 /\ i <= j)

\* C19: with keepLargestContour the extractor returns at most one Shape, the
\* surviving candidate of greatest outer contour area (the earliest on ties),
\* and the entry point returns that Shape.
C19_LargestComponent ==
  (exIn.keepLargestContour /\ exPc \in {"done", "end"} /\ exErr = NoError) =>
    /\ Len(exResult) <= 1
    /\ Len(exCandidates) = Cardinality(Survivors)
    /\ (Survivors = {}) <=> (exResult = <<>>)
    /\ Survivors # {} =>
         LET k == Cardinality({j \in Survivors : j <= Winner})
         IN  /\ exResult = << exCandidates[k].shape >>
             /\ exResult[1].contour =
                  ensureClosedPoints(ExtractOuterPoints(exIn.forest.found[Winner].approx,
                                                        exIn.width, exIn.height))
             /\ exPc = "end" => exOut = exResult[1]

\* two different candidates of the same area: the first is returned
C19_Witness ==
  /\ exPc = "end" /\ exErr = NoError /\ exIn.keepLargestContour
  /\ Len(exCandidates) >= 2
  /\ exCandidates[1].area2 = exCandidates[2].area2
  /\ exCandidates[1].shape # exCandidates[2].shape
  /\ exOut = exCandidates[1].shape

----------------------------------------------------------------------------
(* Claims about the order of the build (Spec) *)

EvaluateCalls ==
  {"evaluate front top", "evaluate front top throws",
   "evaluate result side", "evaluate result side throws"}

ExtrudeThrows == {"extrude front throws", "extrude top throws", "extrude side throws"}

\* C20: an evaluate call is preceded by the successful extrusions of front,
\* top and side, in that order and with the one depth; the evaluation with
\* the side prism comes right after the one of front and top; after a failed
\* extrusion there is no evaluate call.
C20_BuildOrdering ==
  /\ \A i \in 1..Len(calls) :
       calls[i] \in EvaluateCalls =>
         /\ i > 4
         /\ SubSeq(calls, 1, 4) = <<"sanitize", "extrude front", "extrude top", "extrude side">>
         /\ AllBuilt
         /\ BoxSize(geos["front"])[3] = depth * geos["front"].den
         /\ BoxSize(geos["top"])[2] = depth * geos["top"].den
         /\ BoxSize(geos["side"])[1] = depth * geos["side"].den
  /\ \A i \in 1..Len(calls) :
       calls[i] \in {"evaluate front top", "evaluate front top throws"} => i = 5
  /\ \A i \in 1..Len(calls) :
       calls[i] \in {"evaluate result side", "evaluate result side throws"} =>
         (i = 6 /\ calls[5] = "evaluate front top")
  /\ (\E i \in 1..Len(calls) : calls[i] \in ExtrudeThrows) =>
       /\ ~\E j \in 1..Len(calls) : calls[j] \in EvaluateCalls
       /\ result = Null
       /\ (BuildEnded => out.geometry = Null)

\* a build that evaluated both intersections with a depth above the floor
C20_Witness ==
  /\ pc = "normalize"
  /\ calls = <<"sanitize", "extrude front", "extrude top", "extrude side",
               "evaluate front top", "evaluate result side">>
  /\ depth > 300

\* the steps of the extractor arrive at the value of extractShapesFromBinaryMat
ExtractorStepsAgree ==
  /\ exPc = "done" =>
       exResult = extractShapesFromBinaryMat(exIn.forest, exIn.width, exIn.height,
                                             exIn.keepLargestContour)
  /\ (exPc = "end" /\ exIn.entry = "imageToShapeWithPreview" /\ exIn.keepLargestContour
      /\ exErr \in {NoError, NoContourError}) =>
       [error |-> exErr, shape |-> exOut] =
         imageToShapeWithPreview([loads |-> TRUE, fault |-> "none", forest |-> exIn.forest,
                                  width |-> exIn.width, height |-> exIn.height])

\* C18: no-contour abort.  When a view is processed without outside fault and
\* no contour of its image survives the area filter and the point clean-up,
\* imageToShapeWithPreview fails with 'No valid contour found in the image.',
\* that view gets no shape, the loop stops there (the later views are not
\* processed), and the run ends with all three shapes null and no geometry.
C18_NoContourAbort ==
  \A k \in 1..Len(aRun.done) :
    (aRun.done[k].fault = "none" /\ NoSurvivor(aRun.nextBlobs[aRun.done[k].view])) =>
      /\ aRun.done[k].error = NoContourError
      /\ k = Len(aRun.done)
      /\ aPc = "idle"
      /\ \A j \in k..Len(orderedViews) : aRun.nextShapes[orderedViews[j]] = Null
      /\ shapes = NoShapes
      /\ (aLast = "failed" => error = NoContourError)
      /\ (pc = "returned" => resultGeometry = Null)

\* a run whose front view gave a shape and whose top view has no contour left
C18_Witness ==
  /\ aLast = "failed"
  /\ pc = "returned"
  /\ Len(aRun.done) = 2
  /\ aRun.done[2].fault = "none"
  /\ NoSurvivor(aRun.nextBlobs["top"])
  /\ aRun.nextShapes["front"] # Null
  /\ error = NoContourError

\* C17: error delivery to presentation.  Whenever the build has failed with
\* all three shapes present (sanitization, extrusion or CSG failure), the
\* error string of the build is the message the Status panel displays.
C17_ErrorReachesDisplay ==
  (pc = "returned" /\ ~MissingInput(shapes) /\ out.error # NoError) =>
    error = out.error

\* C15 as stated: prior result preserved on error.  When a run has failed
\* and a finished result (three shapes and their geometry) was on screen when
\* it started, those shapes and that geometry are still in place.
C15_PriorResultPreserved ==
  (aLast = "failed" /\ aPrior # Null) =>
    /\ shapes = aPrior.shapes
    /\ (pc = "returned" => resultGeometry = aPrior.resultGeometry)

\* C15 amended: a run removes the result on screen when it starts, and a run
\* that fails leaves the message of the failure in `error`, all three shapes
\* null and no geometry, whatever was on screen before.
C15_FailedRunClearsResult ==
  /\ aLast = "running" => (shapes = NoShapes /\ error = NoError /\ processing)
  /\ aLast = "failed" =>
       /\ shapes = NoShapes
       /\ resultGeometry = Null
       /\ ~processing
       /\ error # NoError
       /\ error = IF Len(aRun.done) = 0 THEN GeminiError
                  ELSE aRun.done[Len(aRun.done)].error

\* a run that failed in the top view after a run that had produced a solid
C15_Witness ==
  /\ aLast = "failed"
  /\ aPrior # Null
  /\ aPrior.resultGeometry # Null
  /\ Len(aRun.done) = 2

\* the stages of the claim and the messages the program has for each
Stages == {"binarize", "extract", "no-contour", "sanitize", "extrude", "csg"}

StageMessages(stage) ==
  CASE stage = "binarize" -> {BinarizeError(LoadError), BinarizeError(ErrMessage)}
    [] stage = "extract" -> {ExtractError(ErrMessage)}
    [] stage = "no-contour" -> {NoContourError}
    [] stage = "sanitize" -> {SanitizeError}
    [] stage = "extrude" -> {ExtrudeError(v) : v \in View}
    [] stage = "csg" -> {CsgError}

\* the message is one of the stage's and of no other stage's
IdentifiesStage(message, stage) ==
  /\ message \in StageMessages(stage)
  /\ \A other \in Stages \ {stage} : message \notin StageMessages(other)

\* the view a message names ("none": it names no view); the messages of the
\* program that contain a view name are the three extrusion messages
ViewNamed(message) ==
  IF \E v \in View : message = ExtrudeError(v)
  THEN CHOOSE v \in View : message = ExtrudeError(v)
  ELSE "none"

\* the stage in which the last processed view failed, from what went wrong
ViewFailedStage ==
  CASE aRun.done[Len(aRun.done)].fault \in {"load", "binarize"} -> "binarize"
    [] aRun.done[Len(aRun.done)].fault = "extract" -> "extract"
    [] OTHER -> "no-contour"

\* a run that failed in one of the claim's stages while processing a view
ViewStageFailed ==
  /\ aLast = "failed"
  /\ Len(aRun.done) > 0
  /\ aRun.done[Len(aRun.done)].fault # "convert"

\* the build failed with all three shapes present
BuildStageFailed == BuildEnded /\ ~MissingInput(shapes) /\ out.error # NoError

\* the stage in which the build failed, from the calls it made
BuildFailedStage ==
  IF ~LastCallThrew THEN "sanitize"
  ELSE IF calls[Len(calls)] \in ExtrudeThrows THEN "extrude" ELSE "csg"

\* C16 as stated: every failure of a pipeline stage carries a message that
\* identifies both the stage and the view in which it failed.
C16_StageAndViewTagged ==
  /\ ViewStageFailed =>
       /\ IdentifiesStage(error, ViewFailedStage)
       /\ ViewNamed(error) = aRun.done[Len(aRun.done)].view
  /\ BuildStageFailed => IdentifiesStage(out.error, BuildFailedStage)

\* C16 amended: every failure of a pipeline stage carries a message that
\* identifies the stage; the message names the view only for an extrusion
\* failure (the view whose extrusion threw), and names no view otherwise.
C16_StageTagged ==
  /\ ViewStageFailed =>
       /\ IdentifiesStage(error, ViewFailedStage)
       /\ ViewNamed(error) = "none"
  /\ BuildStageFailed =>
       /\ IdentifiesStage(out.error, BuildFailedStage)
       /\ IF BuildFailedStage = "extrude"
          THEN calls[Len(calls)] = "extrude " \o ViewNamed(out.error) \o " throws"
          ELSE ViewNamed(out.error) = "none"

\* a run that failed in contour extraction of the side view
C16_Witness ==
  /\ ViewStageFailed
  /\ ViewFailedStage = "extract"
  /\ aRun.done[Len(aRun.done)].view = "side"
  /\ error = ExtractError(ErrMessage)

\* a finished run in which nothing outside the program went wrong: no Gemini,
\* decode, load or OpenCV fault, and no throw in the build that followed
FaultFreeRun ==
  /\ aLast \in {"ok", "failed"}
  /\ pc = "returned"
  /\ Len(aRun.done) > 0
  /\ \A k \in 1..Len(aRun.done) : aRun.done[k].fault = "none"
  /\ ~\E i \in 1..Len(calls) : calls[i] \in ThrowCalls

\* what a run over the images blobs must leave, as a function of the images
\* alone: the run fails at the first view (in processing order) whose image
\* gives no shape, else it stores the three shapes; the depth and the build
\* follow from the stored shapes
RunResult(blobs) ==
  LET failing == {i \in 1..Len(orderedViews) :
                    ProcessOutcome(blobs[orderedViews[i]], "none").error # NoError}
      stored == IF failing # {} THEN NoShapes
                ELSE [v \in View |-> ProcessOutcome(blobs[v], "none").shape]
      built == buildIntersectionGeometryWithDebug(stored, computeExtrusionDepth(stored))
  IN  [shapes |-> stored,
       error |-> IF failing # {}
                 THEN ProcessOutcome(blobs[orderedViews[SetMin(failing)]], "none").error
                 ELSE NoError,
       depth |-> computeExtrusionDepth(stored),
       out |-> built,
       resultGeometry |-> IF built.error # NoError THEN Null ELSE built.geometry]

\* C12: pipeline determinism.  What a fault-free run leaves (shapes, depth,
\* build outcome, output geometry, error) is a function of the images it
\* processed alone: two runs on the same images leave the same shapes, depth
\* and geometry, whatever earlier runs and file changes left behind.
C12_Determinism ==
  FaultFreeRun =>
    [shapes |-> shapes, error |-> error, depth |-> depth, out |-> out,
     resultGeometry |-> resultGeometry] = RunResult(aRun.nextBlobs)

\* a run that produced a solid, started while the different result of an
\* earlier run on other images was on screen
C12_Witness ==
  /\ FaultFreeRun
  /\ aLast = "ok"
  /\ resultGeometry # Null
  /\ aPrior # Null
  /\ aPrior.shapes # shapes
  /\ computeExtrusionDepth(aPrior.shapes) > depth

----------------------------------------------------------------------------
(* Further claims about the sanitizer (SpecSanitize) *)

\* C22: sanitizer idempotence.  Sanitizing the result of sanitizePolygonPoints
\* again returns that result unchanged, for every input point sequence.
C22_SanitizerIdempotent ==
  sanOp = "points" => sanitizePolygonPoints(sanOut) = sanOut

\* an accepted input from which the sanitizer had to remove something
C22_Witness ==
  /\ sanOp = "points"
  /\ SanAccepted
  /\ Len(sanOut) < Len(SanScene)
  /\ \E i \in 1..Len(SanScene) : ~IsFinitePt(SanScene[i])

\* s is t with some entries left out, order kept
RECURSIVE IsSubsequence(_, _)
IsSubsequence(s, t) ==
  IF Len(s) = 0 THEN TRUE
  ELSE IF Len(t) = 0 THEN FALSE
  ELSE IF s[1] = t[1] /\ IsSubsequence(Tail(s), Tail(t)) THEN TRUE
  ELSE IsSubsequence(s, Tail(t))

\* C23: sanitizer output invariant.  A non-empty result of
\* sanitizePolygonPoints has at least 3 points, all finite, is a subsequence
\* of the input in the original order, has no two consecutive equal points,
\* has its last point different from its first, and has absolute shoelace
\* area >= 1e-4; any other result is the empty list.
C23_SanitizerOutput ==
  sanOp = "points" =>
    \/ sanOut = <<>>
    \/ /\ Len(sanOut) >= 3
       /\ \A i \in 1..Len(sanOut) : IsFinitePt(sanOut[i])
       /\ IsSubsequence(sanOut, SanScene)
       /\ \A i \in 1..(Len(sanOut) - 1) :
            ~(sanOut[i].x = sanOut[i + 1].x /\ sanOut[i].y = sanOut[i + 1].y)
       /\ ~(sanOut[1].x = sanOut[Len(sanOut)].x /\ sanOut[1].y = sanOut[Len(sanOut)].y)
       /\ 10000 * Abs(ClaimArea8(sanOut)) >= 8

\* an accepted input that ends with a copy of its first point
C23_Witness ==
  /\ sanOp = "points"
  /\ sanOut # <<>>
  /\ Len(SanScene) = Len(sanOut) + 1
  /\ \A i \in 1..Len(SanScene) : IsFinitePt(SanScene[i])
  /\ SanScene[1] = SanScene[Len(SanScene)]

----------------------------------------------------------------------------
(* Further claims about the build (Spec) *)

\* width and height of the contour of the sanitized shape of a view, in half
\* scene units
ClaimOutline(view) ==
  LET pts == getPoints(safe[view].contour)
      xs == {pts[i].x : i \in 1..Len(pts)}
      ys == {pts[i].y : i \in 1..Len(pts)}
  IN  [w |-> SetMax(xs) - SetMin(xs), h |-> SetMax(ys) - SetMin(ys)]

\* the extents of geometry g along world X, Y, Z are a, b, c half units
ClaimExtents(g, a, b, c) ==
  /\ 2 * BoxSize(g)[1] = a * g.den
  /\ 2 * BoxSize(g)[2] = b * g.den
  /\ 2 * BoxSize(g)[3] = c * g.den

\* the bounding box of g is centred at the origin
ClaimCentred(g) == \A i \in 1..3 : BoundingBox(g).lo[i] + BoundingBox(g).hi[i] = 0

\* C24: view orientation.  The front solid has the outline's width on world X,
\* its height on world Y and the extrusion depth on world Z; the top solid has
\* the width on X, the height on Z and the depth on Y; the side solid has the
\* width on Z, the height on Y and the depth on X; each solid's bounding box
\* is centred at the origin.
C24_ViewOrientation ==
  /\ geos["front"] # Null =>
       /\ ClaimExtents(geos["front"], ClaimOutline("front").w, ClaimOutline("front").h,
                       2 * depth)
       /\ ClaimCentred(geos["front"])
  /\ geos["top"] # Null =>
       /\ ClaimExtents(geos["top"], ClaimOutline("top").w, 2 * depth,
                       ClaimOutline("top").h)
       /\ ClaimCentred(geos["top"])
  /\ geos["side"] # Null =>
       /\ ClaimExtents(geos["side"], 2 * depth, ClaimOutline("side").h,
                       ClaimOutline("side").w)
       /\ ClaimCentred(geos["side"])

\* three solids built from outlines whose width, height and depth all differ
C24_Witness ==
  /\ AllBuilt
  /\ \A v \in View :
       /\ ClaimOutline(v).w # ClaimOutline(v).h
       /\ ClaimOutline(v).w # 2 * depth
       /\ ClaimOutline(v).h # 2 * depth

----------------------------------------------------------------------------
(* Further claims about the App (SpecApp) *)

\* C21: stale in-flight result discarded.  After a run has completed, no
\* shape, no cached Gemini blob and no geometry comes from an image that is
\* no longer the selected file of its view.
C21_StaleResultDiscarded ==
  aPc = "idle" =>
    /\ \A v \in View : shapes[v] # Null => aRun.nextBlobs[v] = files[v]
    /\ \A v \in View : geminiBlobs[v] # NoFile => geminiBlobs[v] = files[v]
    /\ (pc = "returned" /\ resultGeometry # Null) =>
         \A v \in View : aRun.nextBlobs[v] = files[v]

\* the App state holds object URL u of the last run
UrlHeld(u) ==
  \E v \in View :
    \/ u = UrlOf("gemini", v) /\ geminiImages[v] = "run"
    \/ u = UrlOf("transparent", v) /\ transparentImages[v] = "run"

\* C28: object-URL accounting.  After a run, successful or failed, every object
\* URL the run created is held in geminiImages / transparentImages or has been
\* revoked.
C28_UrlAccounting ==
  aPc = "idle" => \A u \in aRun.created : UrlHeld(u) \/ u \in aRun.revoked

\* C27: run completion.  processing is true for as long as a run is in
\* flight, and every run in flight eventually ends, after success or after a
\* failure of any step, with processing = false and phase = null.
C27_RunCompletion ==
  /\ [](aPc # "idle" => processing)
  /\ (aPc # "idle") ~> (aPc = "idle" /\ ~processing /\ phase = NoPhase)

\* a run that ended after the blue-to-transparent conversion of the top view
\* failed
C27_Witness ==
  /\ aPc = "idle"
  /\ aLast = "failed"
  /\ error = ConvertError
  /\ Len(aRun.done) = 2
  /\ ~processing
  /\ phase = NoPhase

\* The claims count the foreground of a mask themselves.
ClaimForeground(mat) == Cardinality({i \in 1..Len(mat) : mat[i] = 255})

\* C26 as stated: with autoInvert on, the mask entering morphology never has
\* more than half of its pixels foreground, whichever path binarized it.
C26_AutoInvertAnyPath ==
  (binPc = "morphology" /\ binIn.autoInvert)
    => 2 * ClaimForeground(binary) <= Len(binary)

\* C26 (amended): auto-invert belongs to the luminance path only.  With
\* autoInvert on, a thresholded mask with more than half of its pixels
\* foreground is inverted before morphology and so enters it with at most
\* half; a mask taken from the alpha channel enters morphology as
\* alpha > 8, whatever share of it is foreground.
C26_AutoInvertLuminanceOnly ==
  binPc = "morphology" =>
    /\ (binSrc.path = "luminance" /\ binIn.autoInvert) =>
         /\ 2 * ClaimForeground(binary) <= Len(binary)
         /\ 2 * ClaimForeground(binSrc.mask) > Len(binary) =>
              \A i \in 1..Len(binary) : binary[i] = 255 - binSrc.mask[i]
         /\ 2 * ClaimForeground(binSrc.mask) <= Len(binary) => binary = binSrc.mask
    /\ binSrc.path = "alpha" =>
         \A i \in 1..Len(binary) : (binary[i] = 255) <=> (binIn.alpha[i] > 8)

\* a thresholded mask with three of four pixels foreground, inverted
C26_Witness ==
  /\ binPc = "morphology"
  /\ binSrc.path = "luminance"
  /\ binIn.autoInvert
  /\ 2 * ClaimForeground(binSrc.mask) > Len(binSrc.mask)
  /\ ClaimForeground(binary) = 1
  /\ 2 * ClaimForeground(binary) < Len(binary)

\* C29 as stated: a call of ensureOpenCVLoaded made while a load is in flight
\* returns the promise of that load, and at most one script element has
\* been inserted.
C29_SamePromiseInFlight ==
  /\ \A m \in DOMAIN mounts :
       mounts[m].inFlight # 0 => mounts[m].got = mounts[m].inFlight
  /\ script.inserted <= 1

\* C29 (amended): a call made while a load is in flight and OpenCV is not
\* yet ready returns the promise of that load; a call made when OpenCV is
\* ready returns a fresh resolved promise, even if a load is still in flight
\* (ready, but not yet noticed by the poll); at most one load is in flight
\* and at most one script element has been inserted.
C29_SingleFlight ==
  /\ \A m \in DOMAIN mounts :
       /\ (mounts[m].inFlight # 0 /\ ~mounts[m].ready)
            => mounts[m].got = mounts[m].inFlight
       /\ mounts[m].ready => mounts[m].got = 0
  /\ Cardinality({a \in DOMAIN attempts : attempts[a].state = "pending"}) <= 1
  /\ script.inserted <= 1

\* a second load, started after the first timed out, is shared by the
\* mount that joins it, and has found the script element of the first
C29_Witness ==
  /\ Len(attempts) = 2
  /\ script.inserted = 1
  /\ \E m \in DOMAIN mounts :
       mounts[m].inFlight = 2 /\ mounts[m].got = 2 /\ ~mounts[m].ready

\* C30: whichever event fires first decides the outcome of a load: a script
\* error rejects the load that is pending when it fires.
C30_ScriptErrorRejects ==
  [][(script.state = "loading" /\ script'.state = "failed")
       => \A a \in DOMAIN attempts :
            attempts[a].state = "pending" => attempts'[a].state = "rejected"]_vars
====
